---- MODULE Spec2Model ----
(***************************************************************************)
(* Model of the screener endpoint POST /db/screener-symbols                *)
(* (backend/routes/db_read_routes.py, get_screener_symbols).               *)
(*                                                                         *)
(* Strings the code inspects character by character (filter values that    *)
(* are parsed, tickers, company names, the search term) are sequences of   *)
(* one-character strings.  Strings the code only compares as a whole       *)
(* (operators, sort directions, sectors, industries, field names) are      *)
(* TLA+ strings.  Numbers are integers counting ten-thousandths, so that   *)
(* a two-decimal user value divided by 100 is still exact.                 *)
(***************************************************************************)
EXTENDS Integers, Sequences, FiniteSets, TLC

(***************************************************************************)
(* Bounds of the model.                                                    *)
(***************************************************************************)
\* number of ticker symbols of the universe (a prefix of TickerOrder)
NumTickers == 3
\* stored metric values range over -MaxVal .. MaxVal whole units
MaxVal == 1

(***************************************************************************)
(* Characters and strings.                                                 *)
(***************************************************************************)
\* code points of the characters in use (Python compares str by code point)
Ord ==
  (" " :> 32) @@ ("%" :> 37) @@ ("+" :> 43) @@ ("," :> 44) @@ ("-" :> 45) @@
  ("." :> 46) @@ ("0" :> 48) @@ ("1" :> 49) @@ ("2" :> 50) @@ ("5" :> 53) @@
  ("A" :> 65) @@ ("B" :> 66) @@ ("C" :> 67) @@ ("D" :> 68) @@ ("x" :> 120) @@
  ("a" :> 97) @@ ("b" :> 98) @@ ("c" :> 99) @@ ("d" :> 100)

Chars == DOMAIN Ord

\* str.upper() on one character
UpperChar(ch) ==
  IF Ord[ch] >= 97 /\ Ord[ch] <= 122
    THEN CHOOSE u \in Chars : Ord[u] = Ord[ch] - 32
    ELSE ch

\* str.upper()
Upper(s) == [i \in 1..Len(s) |-> UpperChar(s[i])]

RECURSIVE LStrip(_)
LStrip(s) == IF s # <<>> /\ Head(s) = " " THEN LStrip(Tail(s)) ELSE s

RECURSIVE RStrip(_)
RStrip(s) ==
  IF s # <<>> /\ s[Len(s)] = " " THEN RStrip(SubSeq(s, 1, Len(s) - 1)) ELSE s

\* str.strip()
Strip(s) == RStrip(LStrip(s))

\* `sub in s` for Python strings
Contains(s, sub) ==
  \E i \in 0..(Len(s) - Len(sub)) : SubSeq(s, i + 1, i + Len(sub)) = sub

\* Python's str `<`: lexicographic by code point, a proper prefix is smaller
RECURSIVE StrLess(_, _)
StrLess(a, b) ==
  IF b = <<>> THEN FALSE
  ELSE IF a = <<>> THEN TRUE
  ELSE IF Ord[Head(a)] # Ord[Head(b)] THEN Ord[Head(a)] < Ord[Head(b)]
  ELSE StrLess(Tail(a), Tail(b))

(***************************************************************************)
(* Optional values: None is the empty tuple, a value v is <<v>>.           *)
(***************************************************************************)
None == <<>>
Some(v) == <<v>>

\* dict.get(key, default)
GetOr(d, key, default) == IF key \in DOMAIN d THEN d[key] ELSE default

(***************************************************************************)
(* _parse_float                                                            *)
(***************************************************************************)
DigitVal ==
  ("0" :> 0) @@ ("1" :> 1) @@ ("2" :> 2) @@ ("5" :> 5)

NumericChars == DOMAIN DigitVal \cup {".", "+", "-"}

RECURSIVE DigitsValue(_)
DigitsValue(ds) ==
  IF ds = <<>> THEN 0
  ELSE 10 * DigitsValue(SubSeq(ds, 1, Len(ds) - 1)) + DigitVal[ds[Len(ds)]]

\* float() of a string made of digits, '.', '+', '-' only: None stands for
\* ValueError.  The value counts ten-thousandths (four decimals are kept).
FloatOf(c) ==
  LET signed == c # <<>> /\ Head(c) \in {"+", "-"}
      body   == IF signed THEN Tail(c) ELSE c
      dots   == {i \in 1..Len(body) : body[i] = "."}
      wellFormed ==
        /\ \A i \in 1..Len(body) : body[i] \in DOMAIN DigitVal \cup {"."}
        /\ Cardinality(dots) <= 1
        /\ \E i \in 1..Len(body) : body[i] \in DOMAIN DigitVal
      dot    == IF dots = {} THEN Len(body) + 1 ELSE CHOOSE i \in dots : TRUE
      whole  == SubSeq(body, 1, dot - 1)
      frac   == SubSeq(SubSeq(body, dot + 1, Len(body)) \o <<"0","0","0","0">>, 1, 4)
      mag    == 10000 * DigitsValue(whole) + DigitsValue(frac)
  IN IF ~wellFormed THEN None
     ELSE IF signed /\ Head(c) = "-" THEN Some(-mag) ELSE Some(mag)

\* a string without numeric character taken for 0: float(cleaned or 0)
_parse_float_EmptyAsZero(value) ==
  IF value.t = "none" THEN None
  ELSE IF value.t = "num" THEN Some(value.n)
  ELSE LET cleaned == SelectSeq(Strip(value.s), LAMBDA ch : ch \in NumericChars) IN
       IF cleaned = <<>> THEN Some(0) ELSE FloatOf(cleaned)

\* A raw filter value is [t |-> "none"], [t |-> "num", n |-> ...] or
\* [t |-> "str", s |-> ...].
_parse_float(value) ==
  IF value.t = "none" THEN None
  ELSE IF value.t = "num" THEN Some(value.n)
  ELSE LET s == Strip(value.s) IN
       IF s = <<>> THEN None
       ELSE LET cleaned == SelectSeq(s, LAMBDA ch : ch \in NumericChars) IN
            IF cleaned = <<>> THEN None ELSE FloatOf(cleaned)

\* filters.get(key) followed by _parse_float
ParsedFilter(filters, key) ==
  IF key \in DOMAIN filters THEN _parse_float(filters[key]) ELSE None

(***************************************************************************)
(* Operators and the table of screenable metrics.                          *)
(***************************************************************************)
operator_map ==
  ("lte" :> "$lte") @@ ("lt" :> "$lt") @@ ("gte" :> "$gte") @@
  ("gt" :> "$gt") @@ ("eq" :> "$eq") @@ ("ne" :> "$ne")

\* a fallback to lte instead of gte
get_mongo_operator_FallbackLte(op) == GetOr(operator_map, op, "$lte")

\* operator_map.get(op, "$gte")
get_mongo_operator(op) == GetOr(operator_map, op, "$gte")

\* the add_bf_with_operator(...) calls, in source order
BfMetricTable ==
<<
  [metric_key |-> "peTTM", filter_key |-> "peMax", operator_key |-> "peOperator",
   is_percent |-> FALSE, default_operator |-> "lte"],
  [metric_key |-> "forwardPE", filter_key |-> "forwardPeMax", operator_key |-> "forwardPeOperator",
   is_percent |-> FALSE, default_operator |-> "lte"],
  [metric_key |-> "pegTTM", filter_key |-> "pegMax", operator_key |-> "pegOperator",
   is_percent |-> FALSE, default_operator |-> "lte"],
  [metric_key |-> "pb", filter_key |-> "pbMax", operator_key |-> "pbOperator",
   is_percent |-> FALSE, default_operator |-> "lte"],
  [metric_key |-> "psTTM", filter_key |-> "psMax", operator_key |-> "psOperator",
   is_percent |-> FALSE, default_operator |-> "lte"],
  [metric_key |-> "evEbitdaTTM", filter_key |-> "evEbitdaMax", operator_key |-> "evEbitdaOperator",
   is_percent |-> FALSE, default_operator |-> "lte"],
  [metric_key |-> "netProfitMarginTTM", filter_key |-> "netMarginMin", operator_key |-> "netMarginOperator",
   is_percent |-> TRUE, default_operator |-> "gte"],
  [metric_key |-> "operatingMarginTTM", filter_key |-> "operMarginMin", operator_key |-> "operMarginOperator",
   is_percent |-> TRUE, default_operator |-> "gte"],
  [metric_key |-> "grossMarginTTM", filter_key |-> "grossMarginMin", operator_key |-> "grossMarginOperator",
   is_percent |-> TRUE, default_operator |-> "gte"],
  [metric_key |-> "roeTTM", filter_key |-> "roeMin", operator_key |-> "roeOperator",
   is_percent |-> TRUE, default_operator |-> "gte"],
  [metric_key |-> "roaTTM", filter_key |-> "roaMin", operator_key |-> "roaOperator",
   is_percent |-> TRUE, default_operator |-> "gte"],
  [metric_key |-> "roicTTM", filter_key |-> "roiMin", operator_key |-> "roiOperator",
   is_percent |-> TRUE, default_operator |-> "gte"],
  [metric_key |-> "revenueGrowthTTMYoy", filter_key |-> "revGrowthYoyMin", operator_key |-> "revGrowthYoyOperator",
   is_percent |-> TRUE, default_operator |-> "gte"],
  [metric_key |-> "revenueGrowth3Y", filter_key |-> "revGrowth3YMin", operator_key |-> "revGrowth3YOperator",
   is_percent |-> TRUE, default_operator |-> "gte"],
  [metric_key |-> "revenueGrowth5Y", filter_key |-> "revGrowth5YMin", operator_key |-> "revGrowth5YOperator",
   is_percent |-> TRUE, default_operator |-> "gte"],
  [metric_key |-> "epsGrowthTTMYoy", filter_key |-> "epsGrowthYoyMin", operator_key |-> "epsGrowthYoyOperator",
   is_percent |-> TRUE, default_operator |-> "gte"],
  [metric_key |-> "epsGrowth3Y", filter_key |-> "epsGrowth3YMin", operator_key |-> "epsGrowth3YOperator",
   is_percent |-> TRUE, default_operator |-> "gte"],
  [metric_key |-> "epsGrowth5Y", filter_key |-> "epsGrowth5YMin", operator_key |-> "epsGrowth5YOperator",
   is_percent |-> TRUE, default_operator |-> "gte"],
  [metric_key |-> "focfCagr5Y", filter_key |-> "cashFlowGrowthMin", operator_key |-> "cashFlowGrowthOperator",
   is_percent |-> TRUE, default_operator |-> "gte"],
  [metric_key |-> "ebitdaCagr5Y", filter_key |-> "ebitdaGrowthMin", operator_key |-> "ebitdaGrowthOperator",
   is_percent |-> TRUE, default_operator |-> "gte"],
  [metric_key |-> "freeCashFlowPerShareTTM", filter_key |-> "fcfPerShareMin", operator_key |-> "fcfPerShareOperator",
   is_percent |-> FALSE, default_operator |-> "gte"],
  [metric_key |-> "currentEv/freeCashFlowTTM", filter_key |-> "evFcfMax", operator_key |-> "evFcfOperator",
   is_percent |-> FALSE, default_operator |-> "lte"],
  [metric_key |-> "totalDebtToEquity", filter_key |-> "deRatioMax", operator_key |-> "deRatioOperator",
   is_percent |-> FALSE, default_operator |-> "lte"],
  [metric_key |-> "netInterestCoverageAnnual", filter_key |-> "interestCoverageMin", operator_key |-> "interestCoverageOperator",
   is_percent |-> FALSE, default_operator |-> "gte"],
  [metric_key |-> "currentRatioAnnual", filter_key |-> "currentRatioMin", operator_key |-> "currentRatioOperator",
   is_percent |-> FALSE, default_operator |-> "gte"],
  [metric_key |-> "quickRatioAnnual", filter_key |-> "quickRatioMin", operator_key |-> "quickRatioOperator",
   is_percent |-> FALSE, default_operator |-> "gte"],
  [metric_key |-> "yearToDatePriceReturnDaily", filter_key |-> "ytdReturnMin", operator_key |-> "ytdReturnOperator",
   is_percent |-> TRUE, default_operator |-> "gte"],
  [metric_key |-> "5DayPriceReturnDaily", filter_key |-> "return5DMin", operator_key |-> "return5DOperator",
   is_percent |-> TRUE, default_operator |-> "gte"],
  [metric_key |-> "monthToDatePriceReturnDaily", filter_key |-> "return1MMin", operator_key |-> "return1MOperator",
   is_percent |-> TRUE, default_operator |-> "gte"],
  [metric_key |-> "13WeekPriceReturnDaily", filter_key |-> "return3MMin", operator_key |-> "return3MOperator",
   is_percent |-> TRUE, default_operator |-> "gte"],
  [metric_key |-> "priceRelativeToS&P50052Week", filter_key |-> "relSp5001YMin", operator_key |-> "relSp5001YOperator",
   is_percent |-> TRUE, default_operator |-> "gte"]
>>

\* sort_metric_mapping, in insertion order
sort_metric_mapping ==
<<
  <<"peSortDirection", "peTTM">>,
  <<"forwardPeSortDirection", "forwardPE">>,
  <<"pegSortDirection", "pegTTM">>,
  <<"pbSortDirection", "pb">>,
  <<"psSortDirection", "psTTM">>,
  <<"evEbitdaSortDirection", "evEbitdaTTM">>,
  <<"netMarginSortDirection", "netProfitMarginTTM">>,
  <<"operMarginSortDirection", "operatingMarginTTM">>,
  <<"grossMarginSortDirection", "grossMarginTTM">>,
  <<"roeSortDirection", "roeTTM">>,
  <<"roaSortDirection", "roaTTM">>,
  <<"roiSortDirection", "roicTTM">>,
  <<"revGrowthYoySortDirection", "revenueGrowthTTMYoy">>,
  <<"revGrowth3YSortDirection", "revenueGrowth3Y">>,
  <<"revGrowth5YSortDirection", "revenueGrowth5Y">>,
  <<"epsGrowthYoySortDirection", "epsGrowthTTMYoy">>,
  <<"epsGrowth3YSortDirection", "epsGrowth3Y">>,
  <<"epsGrowth5YSortDirection", "epsGrowth5Y">>,
  <<"cashFlowGrowthSortDirection", "focfCagr5Y">>,
  <<"ebitdaGrowthSortDirection", "ebitdaCagr5Y">>,
  <<"deRatioSortDirection", "totalDebtToEquity">>,
  <<"interestCoverageSortDirection", "netInterestCoverageAnnual">>,
  <<"currentRatioSortDirection", "currentRatioAnnual">>,
  <<"quickRatioSortDirection", "quickRatioAnnual">>,
  <<"fcfPerShareSortDirection", "freeCashFlowPerShareTTM">>,
  <<"evFcfSortDirection", "currentEv/freeCashFlowTTM">>,
  <<"ytdReturnSortDirection", "yearToDatePriceReturnDaily">>,
  <<"return5DSortDirection", "5DayPriceReturnDaily">>,
  <<"return1MSortDirection", "monthToDatePriceReturnDaily">>,
  <<"return3MSortDirection", "13WeekPriceReturnDaily">>,
  <<"relSp5001YSortDirection", "priceRelativeToS&P50052Week">>,
  <<"latestCloseSortDirection", "close">>,
  <<"latestVolumeSortDirection", "volume">>
>>

(***************************************************************************)
(* Query compilation.                                                      *)
(***************************************************************************)
\* an empty dict
EmptyDict == [k \in {} |-> 0]

\* the default operator of the row ignored: filters.get(operator_key, "gte")
add_bf_with_operator_DefaultIgnored(bf_query, filters, row) ==
  LET val == ParsedFilter(filters, row.filter_key) IN
  IF val = None THEN bf_query
  ELSE LET threshold == IF row.is_percent THEN val[1] \div 100 ELSE val[1]
           operator  == GetOr(filters, row.operator_key, "gte")
           mongo_op  == get_mongo_operator(operator)
           before    == GetOr(bf_query, row.metric_key, EmptyDict)
       IN (row.metric_key :> ((mongo_op :> threshold) @@ before)) @@ bf_query

\* the percent flag ignored: the threshold is never divided by 100
add_bf_with_operator_NoPercent(bf_query, filters, row) ==
  LET val == ParsedFilter(filters, row.filter_key) IN
  IF val = None THEN bf_query
  ELSE LET threshold == val[1]
           operator  == GetOr(filters, row.operator_key, row.default_operator)
           mongo_op  == get_mongo_operator(operator)
           before    == GetOr(bf_query, row.metric_key, EmptyDict)
       IN (row.metric_key :> ((mongo_op :> threshold) @@ before)) @@ bf_query

\* add_bf_with_operator: the query after the call, given the query before.
\* A field's condition is a dict operator -> threshold (setdefault + store).
add_bf_with_operator(bf_query, filters, row) ==
  LET val == ParsedFilter(filters, row.filter_key) IN
  IF val = None THEN bf_query
  ELSE LET threshold == IF row.is_percent THEN val[1] \div 100 ELSE val[1]
           operator  == GetOr(filters, row.operator_key, row.default_operator)
           mongo_op  == get_mongo_operator(operator)
           before    == GetOr(bf_query, row.metric_key, EmptyDict)
       IN (row.metric_key :> ((mongo_op :> threshold) @@ before)) @@ bf_query

\* bf_query after the first n rows of the table
RECURSIVE BfQueryUpTo(_, _)
BfQueryUpTo(filters, n) ==
  IF n = 0 THEN EmptyDict
  ELSE add_bf_with_operator(BfQueryUpTo(filters, n - 1), filters, BfMetricTable[n])

\* bf_query as built by the whole sequence of add_bf_with_operator calls
BuildBfQuery(filters) == BfQueryUpTo(filters, Len(BfMetricTable))

\* lc_query without its resolution clause: field -> {operator: threshold};
\* EmptyDict when neither latestCloseMin nor latestVolumeMin parses
BuildLcQuery(filters) ==
  LET latest_close_value     == ParsedFilter(filters, "latestCloseMin")
      latest_volume_value    == ParsedFilter(filters, "latestVolumeMin")
      latest_close_operator  == GetOr(filters, "latestCloseOperator", "lte")
      latest_volume_operator == GetOr(filters, "latestVolumeOperator", "lte")
      closePart  == IF latest_close_value = None THEN EmptyDict
                    ELSE "close" :> (get_mongo_operator(latest_close_operator)
                                       :> latest_close_value[1])
      volumePart == IF latest_volume_value = None THEN EmptyDict
                    ELSE "volume" :> (get_mongo_operator(latest_volume_operator)
                                        :> latest_volume_value[1])
  IN closePart @@ volumePart

\* truthiness of filters.get(key) for a string-valued key
Truthy(filters, key) == key \in DOMAIN filters /\ filters[key] # ""

\* "Any" taken for a sector like any other
has_sector_filter_AnyCounts(filters) == Truthy(filters, "sector")

has_sector_filter(filters) == Truthy(filters, "sector") /\ filters["sector"] # "Any"

has_industry_filter(filters) ==
  Truthy(filters, "industry") /\ filters["industry"] # "Any"

\* and_clauses of the CompanyProfile query
AndClauses(filters, ticker_set) ==
  (IF has_sector_filter(filters)
     THEN << [or_fields |-> {"gsector", "finnhubIndustry"}, value |-> filters["sector"]] >>
     ELSE << >>)
  \o
  (IF has_industry_filter(filters)
     THEN << [or_fields |-> {"gind", "finnhubIndustry"}, value |-> filters["industry"]] >>
     ELSE << >>)
  \o
  (IF ticker_set # None THEN << [in_tickers |-> ticker_set[1]] >> ELSE << >>)

(***************************************************************************)
(* MongoDB matching.  A stored number is an optional value: None is a      *)
(* null or absent field.                                                   *)
(***************************************************************************)
\* one comparison operator of a condition against a stored value
MatchesOp(mongo_op, threshold, stored) ==
  CASE mongo_op = "$lte" -> stored # None /\ stored[1] <= threshold
    [] mongo_op = "$lt"  -> stored # None /\ stored[1] <  threshold
    [] mongo_op = "$gte" -> stored # None /\ stored[1] >= threshold
    [] mongo_op = "$gt"  -> stored # None /\ stored[1] >  threshold
    [] mongo_op = "$eq"  -> stored # None /\ stored[1] =  threshold
    [] mongo_op = "$ne"  -> stored = None \/ stored[1] #  threshold

\* a field condition {operator: threshold, ...} against a stored value
MatchesCond(cond, stored) ==
  \A mongo_op \in DOMAIN cond : MatchesOp(mongo_op, cond[mongo_op], stored)

\* metric value of a BasicFinancials document: data.metric.<key>
MetricOf(doc, metric_key) == GetOr(doc, metric_key, None)

\* the field conditions joined by "or" instead of "and"
BasicFinancialsFind_AnyField(bf, bf_query) ==
  {t \in DOMAIN bf :
     \E metric_key \in DOMAIN bf_query :
        MatchesCond(bf_query[metric_key], MetricOf(bf[t], metric_key))}

\* BasicFinancials.find(bf_query): the tickers of the matching documents
BasicFinancialsFind(bf, bf_query) ==
  {t \in DOMAIN bf :
     \A metric_key \in DOMAIN bf_query :
        MatchesCond(bf_query[metric_key], MetricOf(bf[t], metric_key))}

\* the query without its resolution clause
LatestCandleFind_AnyResolution(lc, lc_query) ==
  {doc.ticker : doc \in
     {d \in lc : \A field \in DOMAIN lc_query :
                   MatchesCond(lc_query[field], Some(d[field]))}}

\* LatestCandle.find({"resolution": "D", ...}): the matching documents' tickers
LatestCandleFind(lc, lc_query) ==
  {doc.ticker : doc \in
     {d \in lc : /\ d.resolution = "D"
                 /\ \A field \in DOMAIN lc_query :
                       MatchesCond(lc_query[field], Some(d[field]))}}

\* the fallback field finnhubIndustry left out of the "or"
MatchesClause_PrimaryOnly(clause, ticker, data) ==
  IF "in_tickers" \in DOMAIN clause
    THEN ticker \in clause.in_tickers
    ELSE \E field \in clause.or_fields \ {"finnhubIndustry"} :
            field \in DOMAIN data /\ data[field] = clause.value

\* one clause of and_clauses against a CompanyProfile document
MatchesClause(clause, ticker, data) ==
  IF "in_tickers" \in DOMAIN clause
    THEN ticker \in clause.in_tickers
    ELSE \E field \in clause.or_fields :
            field \in DOMAIN data /\ data[field] = clause.value

\* CompanyProfile.find(cp_query) with cp_query the conjunction of the clauses
CompanyProfileFind(cp, and_clauses) ==
  {t \in DOMAIN cp :
     \A i \in 1..Len(and_clauses) : MatchesClause(and_clauses[i], t, cp[t])}

(***************************************************************************)
(* Search overlay.                                                         *)
(***************************************************************************)
\* the search term is None or a string; `search_term and search_term.strip()`
SearchActive(search) == search # None /\ Strip(search[1]) # <<>>

\* doc.data.get("name") or ""
NameOf(data) == GetOr(data, "name", <<>>)

\* the two match sets intersected instead of united
SearchOverlay_Intersection(cp, ticker_set, search) ==
  LET search_upper   == Upper(Strip(search[1]))
      ticker_matches == {t \in ticker_set : Contains(Upper(t), search_upper)}
      matching_profiles == {t \in DOMAIN cp : t \in ticker_set}
      company_name_matches ==
        IF ticker_set # {}
          THEN {t \in matching_profiles : Contains(Upper(NameOf(cp[t])), search_upper)}
          ELSE {}
  IN ticker_matches \cap company_name_matches

\* step 5 applied to a ticker set, reading the profiles cp
SearchOverlay(cp, ticker_set, search) ==
  LET search_upper   == Upper(Strip(search[1]))
      ticker_matches == {t \in ticker_set : Contains(Upper(t), search_upper)}
      matching_profiles == {t \in DOMAIN cp : t \in ticker_set}
      company_name_matches ==
        IF ticker_set # {}
          THEN {t \in matching_profiles : Contains(Upper(NameOf(cp[t])), search_upper)}
          ELSE {}
  IN ticker_matches \cup company_name_matches

(***************************************************************************)
(* Ranking.                                                                *)
(***************************************************************************)
\* the lists list(S) may produce: every enumeration of S without repetition
RECURSIVE ListsOf(_)
ListsOf(S) ==
  IF S = {} THEN { <<>> }
  ELSE UNION {{<<x>> \o l : l \in ListsOf(S \ {x})} : x \in S}

\* tuple comparison of two sort keys (flag, signed value, ticker)
KeyLess(k1, k2) ==
  IF k1[1] # k2[1] THEN k1[1] < k2[1]
  ELSE IF k1[2] # k2[2] THEN k1[2] < k2[2]
  ELSE StrLess(k1[3], k2[3])

\* insert x into the sorted list before the first element of greater key
RECURSIVE InsertSorted(_, _, _)
InsertSorted(sorted, x, key) ==
  IF sorted = <<>> THEN <<x>>
  ELSE IF KeyLess(key[x], key[Head(sorted)]) THEN <<x>> \o sorted
  ELSE <<Head(sorted)>> \o InsertSorted(Tail(sorted), x, key)

\* sorted(list, key=...): a stable sort, key a function on the elements
RECURSIVE SortedList(_, _)
SortedList(list, key) ==
  IF list = <<>> THEN <<>>
  ELSE InsertSorted(SortedList(SubSeq(list, 1, Len(list) - 1), key),
                    list[Len(list)], key)

\* sorted(S) for a set of strings (the result does not depend on the
\* iteration order, the order on strings being total)
SortedStrings(S) ==
  SortedList(CHOOSE l \in ListsOf(S) : TRUE, [t \in S |-> <<0, 0, t>>])

\* the loop without its break: the last matching key wins
RECURSIVE FirstSortIndex_LastWins(_, _)
FirstSortIndex_LastWins(filters, i) ==
  IF i > Len(sort_metric_mapping) THEN 0
  ELSE LET key   == sort_metric_mapping[i][1]
           later == FirstSortIndex_LastWins(filters, i + 1)
       IN IF later # 0 THEN later
          ELSE IF Truthy(filters, key) /\ filters[key] \in {"Asc", "Desc"} THEN i
          ELSE 0

\* index of the first sort-direction key set to "Asc" or "Desc", scanning
\* sort_metric_mapping from position i; 0 when there is none
RECURSIVE FirstSortIndex(_, _)
FirstSortIndex(filters, i) ==
  IF i > Len(sort_metric_mapping) THEN 0
  ELSE LET key == sort_metric_mapping[i][1] IN
       IF Truthy(filters, key) /\ filters[key] \in {"Asc", "Desc"} THEN i
       ELSE FirstSortIndex(filters, i + 1)

\* the loop over sort_metric_mapping.items(): the three locals it sets
SortChoice(filters) ==
  LET i == FirstSortIndex(filters, 1) IN
  IF i = 0
    THEN [sort_direction_key |-> None, sort_direction |-> None, sort_metric_key |-> None]
    ELSE [sort_direction_key |-> Some(sort_metric_mapping[i][1]),
          sort_direction     |-> Some(filters[sort_metric_mapping[i][1]]),
          sort_metric_key    |-> Some(sort_metric_mapping[i][2])]

\* ticker_metric_map built from the LatestCandle documents of the tickers
LcMetricMap(lc, ticker_set, sort_metric_key) ==
  LET lc_docs == {d \in lc : d.ticker \in ticker_set /\ d.resolution = "D"} IN
  [t \in {d.ticker : d \in lc_docs} |->
     Some((CHOOSE d \in lc_docs : d.ticker = t)[sort_metric_key])]

\* ticker_metric_map built from the BasicFinancials documents of the tickers
BfMetricMap(bf, ticker_set, sort_metric_key) ==
  [t \in {u \in DOMAIN bf : u \in ticker_set} |-> MetricOf(bf[t], sort_metric_key)]

\* the missing flag never raised
sort_key_NoFlag(ticker_metric_map, sort_direction, ticker) ==
  LET value        == GetOr(ticker_metric_map, ticker, None)
      is_missing   == value = None
      numeric_value == IF is_missing THEN 0 ELSE value[1]
      signed_value == IF sort_direction = "Asc" THEN numeric_value ELSE -numeric_value
  IN << 0, signed_value, ticker >>

\* the missing flag raised in both directions
sort_key_FlagAlways(ticker_metric_map, sort_direction, ticker) ==
  LET value        == GetOr(ticker_metric_map, ticker, None)
      is_missing   == value = None
      numeric_value == IF is_missing THEN 0 ELSE value[1]
      signed_value == IF sort_direction = "Asc" THEN numeric_value ELSE -numeric_value
  IN << IF is_missing THEN 1 ELSE 0, signed_value, ticker >>

\* the key without its last component, the ticker
sort_key_NoTicker(ticker_metric_map, sort_direction, ticker) ==
  LET value        == GetOr(ticker_metric_map, ticker, None)
      is_missing   == value = None
      numeric_value == IF is_missing THEN 0 ELSE value[1]
      signed_value == IF sort_direction = "Asc" THEN numeric_value ELSE -numeric_value
  IN << IF is_missing /\ sort_direction = "Asc" THEN 1 ELSE 0, signed_value, <<>> >>

\* sort_key(ticker)
sort_key(ticker_metric_map, sort_direction, ticker) ==
  LET value        == GetOr(ticker_metric_map, ticker, None)
      is_missing   == value = None
      numeric_value == IF is_missing THEN 0 ELSE value[1]
      signed_value == IF sort_direction = "Asc" THEN numeric_value ELSE -numeric_value
  IN << IF is_missing /\ sort_direction = "Asc" THEN 1 ELSE 0, signed_value, ticker >>

\* direction by sorting ascending and reversing the list for "Desc"
RankedSymbols_ReverseDesc(ticker_metric_map, sort_direction, ticker_set, ticker_list) ==
  LET key == [t \in ticker_set |-> sort_key(ticker_metric_map, "Asc", t)]
      asc == SortedList(ticker_list, key)
      found_tickers   == DOMAIN ticker_metric_map
      missing_tickers == ticker_set \ found_tickers
  IN (IF sort_direction = "Asc" THEN asc
      ELSE [i \in 1..Len(asc) |-> asc[Len(asc) + 1 - i]])
     \o SortedStrings(missing_tickers)

\* only the tickers found in ticker_metric_map ranked, nothing appended
RankedSymbols_FoundOnly(ticker_metric_map, sort_direction, ticker_set, ticker_list) ==
  LET key == [t \in ticker_set |-> sort_key(ticker_metric_map, sort_direction, t)]
      Found(t) == t \in DOMAIN ticker_metric_map
  IN SortedList(SelectSeq(ticker_list, Found), key)

\* symbols_sorted of the sorting branch: sorted(ticker_list, key=sort_key)
\* extended by the sorted tickers absent from ticker_metric_map
RankedSymbols(ticker_metric_map, sort_direction, ticker_set, ticker_list) ==
  LET key == [t \in ticker_set |-> sort_key(ticker_metric_map, sort_direction, t)]
      found_tickers   == DOMAIN ticker_metric_map
      missing_tickers == ticker_set \ found_tickers
  IN SortedList(ticker_list, key) \o SortedStrings(missing_tickers)

\* the default branch returning list(ticker_set) as it comes
SymbolsSorted_NoDefaultSort(bf, lc, filters, ticker_set, ticker_list) ==
  LET choice == SortChoice(filters) IN
  IF choice.sort_direction # None /\ ticker_set # {}
    THEN LET metric == choice.sort_metric_key[1]
             map == IF metric \in {"close", "volume"}
                      THEN LcMetricMap(lc, ticker_set, metric)
                      ELSE BfMetricMap(bf, ticker_set, metric)
         IN RankedSymbols(map, choice.sort_direction[1], ticker_set, ticker_list)
    ELSE ticker_list

\* step 6: symbols_sorted for the candidate set, reading the stores bf and lc
SymbolsSorted(bf, lc, filters, ticker_set, ticker_list) ==
  LET choice == SortChoice(filters) IN
  IF choice.sort_direction # None /\ ticker_set # {}
    THEN LET metric == choice.sort_metric_key[1]
             map == IF metric \in {"close", "volume"}
                      THEN LcMetricMap(lc, ticker_set, metric)
                      ELSE BfMetricMap(bf, ticker_set, metric)
         IN RankedSymbols(map, choice.sort_direction[1], ticker_set, ticker_list)
    ELSE SortedStrings(ticker_set)

(***************************************************************************)
(* The handler as stages between its store reads, and as a whole.          *)
(***************************************************************************)
\* step 1: ticker_set after the BasicFinancials query (None: unconstrained)
AfterBasicFinancials(bf, query) ==
  IF DOMAIN query # {} THEN Some(BasicFinancialsFind(bf, query)) ELSE None

\* `|=` written for `&=`
AfterLatestCandle_Union(lc, filters, ticker_set) ==
  LET lc_query == BuildLcQuery(filters) IN
  IF DOMAIN lc_query # {}
    THEN LET lc_tickers == LatestCandleFind(lc, lc_query) IN
         IF ticker_set = None THEN Some(lc_tickers)
         ELSE Some(ticker_set[1] \cup lc_tickers)
    ELSE ticker_set

\* `ticker_set = lc_tickers` whether or not a candidate set exists
AfterLatestCandle_Reseed(lc, filters, ticker_set) ==
  LET lc_query == BuildLcQuery(filters) IN
  IF DOMAIN lc_query # {} THEN Some(LatestCandleFind(lc, lc_query)) ELSE ticker_set

\* step 2: ticker_set after the LatestCandle query
AfterLatestCandle(lc, filters, ticker_set) ==
  LET lc_query == BuildLcQuery(filters) IN
  IF DOMAIN lc_query # {}
    THEN LET lc_tickers == LatestCandleFind(lc, lc_query) IN
         IF ticker_set = None THEN Some(lc_tickers)
         ELSE Some(ticker_set[1] \cap lc_tickers)
    ELSE ticker_set

\* step 3: ticker_set after the CompanyProfile sector / industry query
AfterCompanyProfile(cp, filters, ticker_set) ==
  IF has_sector_filter(filters) \/ has_industry_filter(filters)
    THEN LET cp_tickers == CompanyProfileFind(cp, AndClauses(filters, ticker_set)) IN
         IF ticker_set = None THEN Some(cp_tickers)
         ELSE Some(ticker_set[1] \cap cp_tickers)
    ELSE ticker_set

\* no default: an unconstrained ticker_set becomes the empty set
AfterFindAll_Empty(cp, ticker_set) ==
  IF ticker_set = None THEN Some({}) ELSE ticker_set

\* `if not ticker_set:` written for `if ticker_set is None:`
AfterFindAll_FallbackOnEmpty(cp, ticker_set) ==
  IF ticker_set = None \/ ticker_set = Some({}) THEN Some(DOMAIN cp) ELSE ticker_set

\* step 4: default to the tickers of all profiles
AfterFindAll(cp, ticker_set) ==
  IF ticker_set = None THEN Some(DOMAIN cp) ELSE ticker_set

\* the overlay applied to every search term but None, untrimmed
AfterSearch_NoStrip(cp, search, ticker_set) ==
  IF search # None
    THEN LET search_upper == Upper(search[1])
             ticker_matches == {t \in ticker_set[1] : Contains(Upper(t), search_upper)}
             company_name_matches ==
               {t \in DOMAIN cp \cap ticker_set[1] :
                  Contains(Upper(NameOf(cp[t])), search_upper)}
         IN Some(ticker_matches \cup company_name_matches)
    ELSE ticker_set

\* step 5: the search overlay, when the search term is not blank
AfterSearch(cp, search, ticker_set) ==
  IF SearchActive(search) THEN Some(SearchOverlay(cp, ticker_set[1], search))
  ELSE ticker_set

\* total from a count of the distinct tickers instead of len(symbols_sorted)
ScreenerSymbolsResponse_DistinctCount(symbols_sorted) ==
  [symbols |-> symbols_sorted,
   total |-> Cardinality({symbols_sorted[i] : i \in 1..Len(symbols_sorted)})]

\* ScreenerSymbolsResponse(symbols=symbols_sorted, total=len(symbols_sorted))
ScreenerSymbolsResponse(symbols_sorted) ==
  [symbols |-> symbols_sorted, total |-> Len(symbols_sorted)]

\* candidate set of a call that runs against the stores bf, lc, cp unchanged
FinalTickerSet(bf, lc, cp, filters, search) ==
  AfterSearch(cp, search,
    AfterFindAll(cp,
      AfterCompanyProfile(cp, filters,
        AfterLatestCandle(lc, filters,
          AfterBasicFinancials(bf, BuildBfQuery(filters))))))[1]

\* get_screener_symbols run alone against unchanging stores
Screener(bf, lc, cp, filters, search) ==
  LET final == FinalTickerSet(bf, lc, cp, filters, search) IN
  ScreenerSymbolsResponse(
    SymbolsSorted(bf, lc, filters, final, CHOOSE l \in ListsOf(final) : TRUE))

(***************************************************************************)
(* State.                                                                  *)
(***************************************************************************)
VARIABLES
  bfStore,      \* collection finnhub-basic-financials: ticker -> data.metric
  lcStore,      \* collection finnhub-latest-candles: set of documents
  cpStore,      \* collection finnhub-profile2: ticker -> data
  request,      \* per call: [filters, search]
  pc,           \* per call: the store read the call is about to make
  bf_query,     \* per call: local bf_query
  lc_query,     \* per call: local lc_query (without the resolution clause)
  ticker_set,   \* per call: local ticker_set, None or a set
  sort_choice,  \* per call: locals sort_direction_key, sort_direction, sort_metric_key
  response,     \* per call: None until the call returns
  failed,       \* per call: None until a store query of the call raises
  feed,         \* the vendor data the ingestion jobs are about to store
  evaluations   \* per call: the candidate sets its request selects from the
                \* store contents there have been while the call ran

vars == << bfStore, lcStore, cpStore, request, pc, bf_query, lc_query,
           ticker_set, sort_choice, response, failed, feed, evaluations >>

stores == << bfStore, lcStore, cpStore >>

\* the state of the ingestion jobs and the record of what they did
ingestion == << feed, evaluations >>

\* the calls of the behaviour
Calls == DOMAIN pc

NoChoice ==
  [sort_direction_key |-> None, sort_direction |-> None, sort_metric_key |-> None]

\* the local state of calls that have not started
LocalsStart(reqs) ==
  /\ request = reqs
  /\ pc = [c \in DOMAIN reqs |-> "build"]
  /\ bf_query = [c \in DOMAIN reqs |-> EmptyDict]
  /\ lc_query = [c \in DOMAIN reqs |-> EmptyDict]
  /\ ticker_set = [c \in DOMAIN reqs |-> None]
  /\ sort_choice = [c \in DOMAIN reqs |-> NoChoice]
  /\ response = [c \in DOMAIN reqs |-> None]
  /\ failed = [c \in DOMAIN reqs |-> None]

\* no vendor data waiting: the ingestion jobs have nothing to store
NoFeed == [bf |-> [t \in {} |-> 0], lc |-> [t \in {} |-> 0]]

\* calls that have not started, no ingestion under way
CallsStart(reqs) ==
  /\ feed = NoFeed
  /\ evaluations = [c \in DOMAIN reqs |-> {}]
  /\ LocalsStart(reqs)

(***************************************************************************)
(* Actions: one per stretch of the handler between two store reads.        *)
(***************************************************************************)
\* bf_query as one dict of the module, which the calls in flight all fill
\* and all read
StepBuildQuery_SharedQuery(c) ==
  /\ pc[c] = "build"
  /\ bf_query' = [d \in Calls |-> BuildBfQuery(request[c].filters) @@ bf_query[d]]
  /\ pc' = [pc EXCEPT ![c] = "bf"]
  /\ UNCHANGED << stores, ingestion, request, failed, lc_query, ticker_set, sort_choice, response >>

\* lines 192-277: build bf_query from the filters
StepBuildQuery(c) ==
  /\ pc[c] = "build"
  /\ bf_query' = [bf_query EXCEPT ![c] = BuildBfQuery(request[c].filters)]
  /\ pc' = [pc EXCEPT ![c] = "bf"]
  /\ UNCHANGED << stores, ingestion, request, failed, lc_query, ticker_set, sort_choice, response >>

\* lines 279-285
StepBasicFinancials(c) ==
  /\ pc[c] = "bf"
  /\ ticker_set' = [ticker_set EXCEPT ![c] = AfterBasicFinancials(bfStore, bf_query[c])]
  /\ pc' = [pc EXCEPT ![c] = "lc"]
  /\ UNCHANGED << stores, ingestion, request, failed, bf_query, lc_query, sort_choice, response >>

\* the BasicFinancials query made again next to the LatestCandle query, so
\* that both sources are read at one moment
StepLatestCandle_RereadMetrics(c) ==
  /\ pc[c] = "lc"
  /\ lc_query' = [lc_query EXCEPT ![c] = BuildLcQuery(request[c].filters)]
  /\ ticker_set' = [ticker_set EXCEPT ![c] =
                      AfterLatestCandle(lcStore, request[c].filters,
                                        AfterBasicFinancials(bfStore, bf_query[c]))]
  /\ pc' = [pc EXCEPT ![c] = "cp"]
  /\ UNCHANGED << stores, ingestion, request, failed, bf_query, sort_choice, response >>

\* lines 287-309
StepLatestCandle(c) ==
  /\ pc[c] = "lc"
  /\ lc_query' = [lc_query EXCEPT ![c] = BuildLcQuery(request[c].filters)]
  /\ ticker_set' = [ticker_set EXCEPT ![c] =
                      AfterLatestCandle(lcStore, request[c].filters, ticker_set[c])]
  /\ pc' = [pc EXCEPT ![c] = "cp"]
  /\ UNCHANGED << stores, ingestion, request, failed, bf_query, sort_choice, response >>

\* lines 311-355
StepCompanyProfile(c) ==
  /\ pc[c] = "cp"
  /\ ticker_set' = [ticker_set EXCEPT ![c] =
                      AfterCompanyProfile(cpStore, request[c].filters, ticker_set[c])]
  /\ pc' = [pc EXCEPT ![c] = "all"]
  /\ UNCHANGED << stores, ingestion, request, failed, bf_query, lc_query, sort_choice, response >>

\* lines 357-360
StepFindAll(c) ==
  /\ pc[c] = "all"
  /\ ticker_set' = [ticker_set EXCEPT ![c] = AfterFindAll(cpStore, ticker_set[c])]
  /\ pc' = [pc EXCEPT ![c] = "search"]
  /\ UNCHANGED << stores, ingestion, request, failed, bf_query, lc_query, sort_choice, response >>

\* lines 362-383
StepSearch(c) ==
  /\ pc[c] = "search"
  /\ ticker_set' = [ticker_set EXCEPT ![c] =
                      AfterSearch(cpStore, request[c].search, ticker_set[c])]
  /\ pc' = [pc EXCEPT ![c] = "sort"]
  /\ UNCHANGED << stores, ingestion, request, failed, bf_query, lc_query, sort_choice, response >>

\* the documents fetched for sorting put through the metric predicates
\* again: a candidate that no longer matches is left out
StepSort_Refilter(c) ==
  /\ pc[c] = "sort"
  /\ LET still == IF DOMAIN bf_query[c] = {} THEN ticker_set[c][1]
                  ELSE ticker_set[c][1] \cap BasicFinancialsFind(bfStore, bf_query[c])
     IN \E ticker_list \in ListsOf(still) :
          response' = [response EXCEPT ![c] =
            Some(ScreenerSymbolsResponse(
                   SymbolsSorted(bfStore, lcStore, request[c].filters, still, ticker_list)))]
  /\ sort_choice' = [sort_choice EXCEPT ![c] = SortChoice(request[c].filters)]
  /\ pc' = [pc EXCEPT ![c] = "done"]
  /\ UNCHANGED << stores, ingestion, request, failed, bf_query, lc_query, ticker_set >>

\* lines 385-526: choose the sort directive, rank, return.  list(ticker_set)
\* enumerates the set in an order the code does not control.
StepSort(c) ==
  /\ pc[c] = "sort"
  /\ \E ticker_list \in ListsOf(ticker_set[c][1]) :
       response' = [response EXCEPT ![c] =
         Some(ScreenerSymbolsResponse(
                SymbolsSorted(bfStore, lcStore, request[c].filters,
                              ticker_set[c][1], ticker_list)))]
  /\ sort_choice' = [sort_choice EXCEPT ![c] = SortChoice(request[c].filters)]
  /\ pc' = [pc EXCEPT ![c] = "done"]
  /\ UNCHANGED << stores, ingestion, request, failed, bf_query, lc_query, ticker_set >>

Next ==
  \E c \in Calls :
    \/ StepBuildQuery(c)
    \/ StepBasicFinancials(c)
    \/ StepLatestCandle(c)
    \/ StepCompanyProfile(c)
    \/ StepFindAll(c)
    \/ StepSearch(c)
    \/ StepSort(c)

(***************************************************************************)
(* A store query that raises.  The handler has no try/except: the          *)
(* exception leaves it at the await, before any later statement.           *)
(***************************************************************************)
\* the store query the call is about to await, None when the code makes
\* none at this point
PendingQuery(c) ==
  LET filters == request[c].filters IN
  CASE pc[c] = "bf" ->
         IF DOMAIN bf_query[c] # {} THEN Some("BasicFinancials.find") ELSE None
    [] pc[c] = "lc" ->
         IF DOMAIN BuildLcQuery(filters) # {} THEN Some("LatestCandle.find") ELSE None
    [] pc[c] = "cp" ->
         IF has_sector_filter(filters) \/ has_industry_filter(filters)
           THEN Some("CompanyProfile.find") ELSE None
    [] pc[c] = "all" ->
         IF ticker_set[c] = None THEN Some("CompanyProfile.find_all") ELSE None
    [] pc[c] = "search" ->
         IF SearchActive(request[c].search) /\ ticker_set[c][1] # {}
           THEN Some("CompanyProfile.find by ticker") ELSE None
    [] pc[c] = "sort" ->
         IF SortChoice(filters).sort_direction # None /\ ticker_set[c][1] # {}
           THEN Some("find by ticker for sorting") ELSE None
    [] OTHER -> None

\* the name lookup in a try/except that goes on with the symbol matches
StoreFails_Swallowed(c) ==
  /\ PendingQuery(c) # None
  /\ failed' = [failed EXCEPT ![c] = PendingQuery(c)]
  /\ IF pc[c] = "search"
       THEN /\ pc' = [pc EXCEPT ![c] = "sort"]
            /\ ticker_set' = [ticker_set EXCEPT ![c] =
                 Some({t \in ticker_set[c][1] :
                         Contains(Upper(t), Upper(Strip(request[c].search[1])))})]
       ELSE /\ pc' = [pc EXCEPT ![c] = "raised"]
            /\ UNCHANGED ticker_set
  /\ UNCHANGED << stores, ingestion, request, bf_query, lc_query, sort_choice, response >>

\* the awaited store query raises: the call ends there, without response
StoreFails(c) ==
  /\ PendingQuery(c) # None
  /\ failed' = [failed EXCEPT ![c] = PendingQuery(c)]
  /\ pc' = [pc EXCEPT ![c] = "raised"]
  /\ UNCHANGED << stores, ingestion, request, bf_query, lc_query, ticker_set, sort_choice, response >>

NextFail ==
  \E c \in Calls :
    \/ StepBuildQuery(c)
    \/ StepBasicFinancials(c)
    \/ StepLatestCandle(c)
    \/ StepCompanyProfile(c)
    \/ StepFindAll(c)
    \/ StepSearch(c)
    \/ StepSort(c)
    \/ StoreFails(c)

(***************************************************************************)
(* The ingestion jobs, which store vendor data ticker by ticker while      *)
(* calls are in flight.                                                    *)
(***************************************************************************)
\* evaluations once the stores hold bf and lc: each call still running gets
\* the candidate set its request selects from these contents
Evaluated(bf, lc) ==
  [c \in Calls |->
     IF pc[c] \in {"done", "raised"} THEN evaluations[c]
     ELSE evaluations[c] \cup
            {FinalTickerSet(bf, lc, cpStore, request[c].filters, request[c].search)}]

\* BasicFinancialsService.create_record / update_record: the ticker's
\* document is created, or its data replaced as a whole
IngestBasicFinancials(t) ==
  /\ t \in DOMAIN feed.bf
  /\ bfStore' = (t :> feed.bf[t]) @@ bfStore
  /\ evaluations' = Evaluated(bfStore', lcStore)
  /\ UNCHANGED << lcStore, cpStore, feed, request, pc, bf_query, lc_query,
                  ticker_set, sort_choice, response, failed >>

\* BasicFinancialsService.delete_record
DeleteBasicFinancials(t) ==
  /\ t \in DOMAIN bfStore
  /\ bfStore' = [u \in DOMAIN bfStore \ {t} |-> bfStore[u]]
  /\ evaluations' = Evaluated(bfStore', lcStore)
  /\ UNCHANGED << lcStore, cpStore, feed, request, pc, bf_query, lc_query,
                  ticker_set, sort_choice, response, failed >>

\* the upsert of the single LatestCandle document of (ticker, resolution)
IngestLatestCandle(t) ==
  /\ t \in DOMAIN feed.lc
  /\ lcStore' = {d \in lcStore : ~(d.ticker = t /\ d.resolution = feed.lc[t].resolution)}
                \cup {[ticker |-> t, resolution |-> feed.lc[t].resolution,
                       close |-> feed.lc[t].close, volume |-> feed.lc[t].volume]}
  /\ evaluations' = Evaluated(bfStore, lcStore')
  /\ UNCHANGED << bfStore, cpStore, feed, request, pc, bf_query, lc_query,
                  ticker_set, sort_choice, response, failed >>

\* the calls and the ingestion jobs; a document is deleted when the vendor
\* data has none for its ticker
NextIngest ==
  \/ \E c \in Calls :
       \/ StepBuildQuery(c)
       \/ StepBasicFinancials(c)
       \/ StepLatestCandle(c)
       \/ StepCompanyProfile(c)
       \/ StepFindAll(c)
       \/ StepSearch(c)
       \/ StepSort(c)
  \/ \E t \in DOMAIN feed.bf : IngestBasicFinancials(t)
  \/ \E t \in DOMAIN bfStore \ DOMAIN feed.bf : DeleteBasicFinancials(t)
  \/ \E t \in DOMAIN feed.lc : IngestLatestCandle(t)

(***************************************************************************)
(* Inputs: tickers, stored values, store contents.                         *)
(***************************************************************************)
TickerOrder == << <<"A">>, <<"B">>, <<"A", "B">>, <<"C">>, <<"D">>, <<"C", "D">> >>

Tickers == {TickerOrder[i] : i \in 1..NumTickers}

TickerIndex(t) == CHOOSE i \in 1..NumTickers : TickerOrder[i] = t

\* whole units -MaxVal .. MaxVal, as a list
WholeVals == [i \in 1..(2 * MaxVal + 1) |-> (i - MaxVal - 1) * 10000]

\* hundredths -MaxVal .. MaxVal (without 0), the whole units, and the stored
\* values 0.14 and 0.15 of the percent example
FineVals ==
  WholeVals \o [i \in 1..MaxVal |-> i * 100] \o [i \in 1..MaxVal |-> -(i * 100)]
            \o << 1400, 1500 >>

\* a stored value of a document: a number or null
Nullable(vals) == << None >> \o [i \in 1..Len(vals) |-> Some(vals[i])]

\* per ticker: no document (None), or a document with one of `docs`
WithAbsent(docs) == << None >> \o [i \in 1..Len(docs) |-> Some(docs[i])]

\* ticker i gets entry i + shift (cyclically) of the list `choices` made by
\* WithAbsent; the tickers whose entry is None have no document
Staggered(choices, shift) ==
  LET pick(t) == choices[((TickerIndex(t) + shift) % Len(choices)) + 1] IN
  [t \in {u \in Tickers : pick(u) # None} |-> pick(t)[1]]

\* every assignment of an entry of `choices` to every ticker
AllContents(choices) ==
  {[t \in {u \in Tickers : f[u] # None} |-> f[t][1]] :
     f \in [Tickers -> {choices[i] : i \in 1..Len(choices)}]}

\* a profile every ticker has in the runs that do not filter on profiles
PlainProfile ==
  [gsector |-> "Technology", gind |-> "Software",
   finnhubIndustry |-> "Technology", name |-> <<"A", "b">>]

AllProfiled == [t \in Tickers |-> PlainProfile]

\* LatestCandle documents from a per-ticker content: [resolution, close, volume]
CandleDocs(content) ==
  {[ticker |-> t, resolution |-> content[t].resolution,
    close |-> content[t].close, volume |-> content[t].volume] : t \in DOMAIN content}

\* candle contents: a daily candle carrying v in `field`, or a 1-minute one
CandleChoices(vals, field) ==
  WithAbsent(
    [i \in 1..Len(vals) |->
       [resolution |-> "D",
        close  |-> IF field = "close" THEN vals[i] ELSE 0,
        volume |-> IF field = "volume" THEN vals[i] ELSE 0]]
    \o << [resolution |-> "1", close |-> 0, volume |-> 0] >>)

\* one call, numbered 1
OneCall(filters, search) == 1 :> [filters |-> filters, search |-> search]

\* a filter entry, or nothing when the optional value is None
Entry(key, value) == IF value = None THEN EmptyDict ELSE key :> value[1]

Str(s) == [t |-> "str", s |-> s]

(***************************************************************************)
(* Specification Spec: filters on the three sources together, a search     *)
(* term and a sort directive.  Each store's per-ticker contents are        *)
(* staggered independently, so that every ticker meets every combination   *)
(* of a BasicFinancials, a LatestCandle and a CompanyProfile content.      *)
(***************************************************************************)
\* BasicFinancials contents: P/E and net margin both null or both v
BfChoices ==
  WithAbsent([k \in 1..Len(Nullable(WholeVals)) |->
                ("peTTM" :> Nullable(WholeVals)[k]) @@
                ("netProfitMarginTTM" :> Nullable(WholeVals)[k])])

\* LatestCandle contents: a daily candle of close v and volume v, or a
\* 1-minute candle
LcChoices ==
  WithAbsent([k \in 1..Len(WholeVals) |->
                [resolution |-> "D", close |-> WholeVals[k], volume |-> WholeVals[k]]]
             \o << [resolution |-> "1", close |-> 0, volume |-> 0] >>)

\* CompanyProfile contents: the sector or the industry held by the primary
\* field, by the fallback field finnhubIndustry, or by neither
CpChoices ==
  WithAbsent(<<
    [gsector |-> "Technology", gind |-> "Software", finnhubIndustry |-> "Other",
     name |-> <<"A", "b">>],
    [gsector |-> "Finance", gind |-> "Banks", finnhubIndustry |-> "Technology",
     name |-> <<"b", "a">>],
    [gsector |-> "Finance", gind |-> "Banks", finnhubIndustry |-> "Software",
     name |-> <<"C", "d">>],
    [gsector |-> "Technology", gind |-> "Banks", finnhubIndustry |-> "Other",
     name |-> <<>>],
    [gsector |-> "Finance", gind |-> "Software", finnhubIndustry |-> "Other"],
    [gsector |-> "Finance", gind |-> "Banks", finnhubIndustry |-> "Other",
     name |-> <<"A", "B">>] >>)

\* the filters on each source, the search terms and the sort directives
BfFilterInputs ==
  { EmptyDict,
    "peMax" :> Str(<<"0">>),
    ("peMax" :> Str(<<"0">>)) @@ ("netMarginMin" :> Str(<<"0">>)) }

LcFilterInputs ==
  { EmptyDict,
    "latestCloseMin" :> Str(<<"0">>),
    ("latestCloseMin" :> Str(<<"0">>)) @@ ("latestVolumeMin" :> Str(<<"0">>))
      @@ ("latestVolumeOperator" :> "gte") }

CpFilterInputs ==
  { EmptyDict,
    "sector" :> "Technology",
    "industry" :> "Software",
    ("sector" :> "Technology") @@ ("industry" :> "Software"),
    ("sector" :> "Any") @@ ("industry" :> "") }

SearchInputs == { None, Some(<<"a">>) }

SortInputs == { EmptyDict, "peSortDirection" :> "Desc" }

Init ==
  \E s1 \in 0..(Len(BfChoices) - 1), s2 \in 0..(Len(LcChoices) - 1),
     s3 \in 0..(Len(CpChoices) - 1) :
    /\ bfStore = Staggered(BfChoices, s1)
    /\ lcStore = CandleDocs(Staggered(LcChoices, s2))
    /\ cpStore = Staggered(CpChoices, s3)
    /\ \E fb \in BfFilterInputs, fl \in LcFilterInputs, fc \in CpFilterInputs,
          fs \in SortInputs, search \in SearchInputs :
         CallsStart(OneCall(fb @@ fl @@ fc @@ fs, search))

Spec == Init /\ [][Next]_vars

(***************************************************************************)
(* Specification SpecOper: one filter on any screenable metric, with any   *)
(* operator string, against staggered stored values of that metric.        *)
(***************************************************************************)
\* the screenable metrics: the BasicFinancials table and the two candle fields
ScreenMetrics ==
  [i \in 1..Len(BfMetricTable) |->
     [source |-> "bf", field |-> BfMetricTable[i].metric_key,
      filter_key |-> BfMetricTable[i].filter_key,
      operator_key |-> BfMetricTable[i].operator_key]]
  \o << [source |-> "lc", field |-> "close", filter_key |-> "latestCloseMin",
         operator_key |-> "latestCloseOperator"],
        [source |-> "lc", field |-> "volume", filter_key |-> "latestVolumeMin",
         operator_key |-> "latestVolumeOperator"] >>

OperatorInputs ==
  {None} \cup {Some(op) : op \in {"lte", "lt", "gte", "gt", "eq", "ne", "between", "LTE", ""}}

ValueInputs == { Str(<<"1">>), Str(<<"-", "1">>), Str(<<"1", "5", "%">>) }

InitOper ==
  \E i \in 1..Len(ScreenMetrics), raw \in ValueInputs, op \in OperatorInputs :
    LET m == ScreenMetrics[i]
        bfChoices == WithAbsent([k \in 1..Len(Nullable(FineVals)) |->
                                   m.field :> Nullable(FineVals)[k]])
        lcChoices == CandleChoices(FineVals, m.field)
    IN \E shift \in 0..(Len(Nullable(FineVals)) + 1) :
         /\ bfStore = IF m.source = "bf" THEN Staggered(bfChoices, shift) ELSE EmptyDict
         /\ lcStore = IF m.source = "lc" THEN CandleDocs(Staggered(lcChoices, shift)) ELSE {}
         /\ cpStore = AllProfiled
         /\ CallsStart(OneCall(Entry(m.filter_key, Some(raw)) @@ Entry(m.operator_key, op), None))

SpecOper == InitOper /\ [][Next]_vars

(***************************************************************************)
(* Specification SpecRank: one sort directive, every content of the owning *)
(* store for the sort field; every ticker has a profile.                   *)
(***************************************************************************)
RankKeys ==
  << <<"peSortDirection", "peTTM">>, <<"roeSortDirection", "roeTTM">>,
     <<"latestCloseSortDirection", "close">>, <<"latestVolumeSortDirection", "volume">> >>

InitRank ==
  \E i \in 1..Len(RankKeys), dir \in {"Asc", "Desc"} :
    LET field == RankKeys[i][2]
        onCandles == field \in {"close", "volume"}
    IN /\ IF onCandles
            THEN /\ bfStore = EmptyDict
                 /\ \E content \in AllContents(CandleChoices(WholeVals, field)) :
                      lcStore = CandleDocs(content)
            ELSE /\ lcStore = {}
                 /\ \E content \in AllContents(WithAbsent(
                        [k \in 1..Len(Nullable(WholeVals)) |->
                           field :> Nullable(WholeVals)[k]])) :
                      bfStore = content
       /\ cpStore = AllProfiled
       /\ CallsStart(OneCall(RankKeys[i][1] :> dir, None))

SpecRank == InitRank /\ [][Next]_vars

(***************************************************************************)
(* Specification SpecPrio: two sort-direction keys of the mapping, valid   *)
(* or not; every ticker has a value for both sort fields, the second       *)
(* field's values being the first's moved on by one ticker, so that the    *)
(* returned order tells which field ranked it.                             *)
(***************************************************************************)
FirstDirections == {Some("Asc"), Some("Desc"), Some("asc"), Some("")}

SecondDirections == {Some("Asc"), Some("Desc"), Some("desc")}

InitPrio ==
  \E i, j \in 1..Len(sort_metric_mapping) :
    /\ i < j
    /\ \E d1 \in FirstDirections, d2 \in SecondDirections,
          shift \in 0..1 :
         LET f1 == sort_metric_mapping[i][2]
             f2 == sort_metric_mapping[j][2]
             v(t, k) == WholeVals[((TickerIndex(t) + shift + k) % Len(WholeVals)) + 1]
             val(t, f) == IF f = f1 THEN v(t, 0) ELSE IF f = f2 THEN v(t, 1) ELSE 0
         IN /\ bfStore = [t \in Tickers |->
                            [f \in {f1, f2} \ {"close", "volume"} |-> Some(val(t, f))]]
            /\ lcStore = {[ticker |-> t, resolution |-> "D",
                           close |-> val(t, "close"), volume |-> val(t, "volume")] :
                            t \in Tickers}
            /\ cpStore = AllProfiled
            /\ CallsStart(OneCall(Entry(sort_metric_mapping[i][1], d1)
                                    @@ Entry(sort_metric_mapping[j][1], d2), None))

SpecPrio == InitPrio /\ [][Next]_vars

(***************************************************************************)
(* Specification SpecSame: two calls against the same stores, call 1 with  *)
(* one more filter key (or a blank search term) than call 2.  Every        *)
(* BasicFinancials document holds one value in all its metric fields, so   *)
(* that one family of stores serves every metric.                          *)
(***************************************************************************)
\* the BasicFinancials metric fields the filters screen or sort on
FieldsUsed(filters) ==
  {BfMetricTable[i].metric_key : i \in
     {j \in 1..Len(BfMetricTable) : BfMetricTable[j].filter_key \in DOMAIN filters}}
  \cup ({sort_metric_mapping[i][2] : i \in
          {j \in 1..Len(sort_metric_mapping) :
             sort_metric_mapping[j][1] \in DOMAIN filters}}
        \ {"close", "volume"})

\* BasicFinancials contents: each of the fields null, or each of them v
UniformBfChoices(fields) ==
  WithAbsent([k \in 1..Len(Nullable(WholeVals)) |->
                [f \in fields |-> Nullable(WholeVals)[k]]])

\* the three stores, their per-ticker contents moved on together by `shift`
PairStores(shift, fields) ==
  /\ bfStore = Staggered(UniformBfChoices(fields), shift)
  /\ lcStore = CandleDocs(Staggered(LcChoices, shift + 2))
  /\ cpStore = Staggered(CpChoices, shift)

\* a request without predicate: an unknown key, "Any" and empty categories,
\* a value that does not parse, a sort direction that is not a direction
\* and a sort directive
NoOpContext ==
  [filters |-> ("fooMax" :> "1") @@ ("sector" :> "Any")
               @@ ("industry" :> "") @@ ("pbMax" :> Str(<<"x">>))
               @@ ("pbSortDirection" :> "asc") @@ ("roeSortDirection" :> "Desc"),
   search |-> None]

\* a request with a metric predicate, a category predicate and a search term
ActiveContext ==
  [filters |-> ("peMax" :> Str(<<"0">>)) @@ ("sector" :> "Technology"),
   search |-> Some(<<"b">>)]

Contexts == { [filters |-> EmptyDict, search |-> None], NoOpContext, ActiveContext }

\* the dict without the key
Without(filters, key) == [k \in DOMAIN filters \ {key} |-> filters[k]]

\* call 1: the context's request with `extra` and with key set to value;
\* call 2: the same request without the key
KeyPair(ctx, key, value, extra) ==
  LET base == extra @@ Without(ctx.filters, key) IN
  (1 :> [filters |-> (key :> value) @@ base, search |-> ctx.search])
  @@ (2 :> [filters |-> base, search |-> ctx.search])

\* call 1: the context's filters with the search term; call 2: without search
SearchPair(ctx, search) ==
  (1 :> [filters |-> ctx.filters, search |-> search])
  @@ (2 :> [filters |-> ctx.filters, search |-> None])

BlankSearches == { Some(<<>>), Some(<<" ">>), Some(<<" ", " ">>) }

\* the keys given "Any", the empty string or an unknown direction:
\* [key, value, extra]
SameVariants ==
  {[key |-> k, value |-> v, extra |-> EmptyDict] :
     k \in {"sector", "industry"}, v \in {"Any", ""}}
  \cup {[key |-> ScreenMetrics[i].filter_key, value |-> Str(<<>>), extra |-> EmptyDict] :
          i \in 1..Len(ScreenMetrics)}
  \cup {[key |-> sort_metric_mapping[i][1], value |-> v, extra |-> EmptyDict] :
          i \in 1..Len(sort_metric_mapping), v \in {"", "asc"}}
  \cup {[key |-> ScreenMetrics[i].operator_key, value |-> "",
         extra |-> ScreenMetrics[i].filter_key :> Str(<<"0">>)] :
          i \in 1..Len(ScreenMetrics)}

InitSame ==
  \E shift \in 0..(NumTickers + 1), ctx \in Contexts :
    \E reqs \in {KeyPair(ctx, x.key, x.value, x.extra) : x \in SameVariants}
                 \cup {SearchPair(ctx, q) : q \in BlankSearches} :
      /\ PairStores(shift, FieldsUsed(reqs[1].filters))
      /\ CallsStart(reqs)

SpecSame == InitSame /\ [][Next]_vars

(***************************************************************************)
(* Specification SpecUnparse: two calls against the same stores, call 1    *)
(* with a value that does not parse under one of the metric keys, call 2   *)
(* without that key; the metric's operator key is present or not.          *)
(***************************************************************************)
\* null, empty, blank, without numeric character, and two strings float()
\* rejects
UnparseableInputs ==
  { [t |-> "none"], Str(<<>>), Str(<<" ">>), Str(<<"x">>),
    Str(<<"1", "-", "2">>), Str(<<".", "%">>) }

InitUnparse ==
  \E i \in 1..Len(ScreenMetrics), raw \in UnparseableInputs,
     op \in {None, Some("gt")}, shift \in 0..1,
     ctx \in { [filters |-> EmptyDict, search |-> None], ActiveContext } :
    LET m == ScreenMetrics[i]
        reqs == KeyPair(ctx, m.filter_key, raw, Entry(m.operator_key, op))
    IN /\ PairStores(shift, FieldsUsed(reqs[1].filters))
       /\ CallsStart(reqs)

SpecUnparse == InitUnparse /\ [][Next]_vars

(***************************************************************************)
(* Specification SpecFail: one call, any of whose store queries may raise. *)
(***************************************************************************)
InitFail ==
  \E shift \in 0..NumTickers :
    \E fb \in BfFilterInputs, fl \in LcFilterInputs, fc \in CpFilterInputs,
       fs \in SortInputs, search \in SearchInputs :
      LET reqs == OneCall(fb @@ fl @@ fc @@ fs, search) IN
      /\ PairStores(shift, FieldsUsed(reqs[1].filters))
      /\ CallsStart(reqs)

SpecFail == InitFail /\ [][NextFail]_vars

(***************************************************************************)
(* Specification SpecConc: two calls in flight together against the same   *)
(* stores, their requests equal or different; the steps of the two calls   *)
(* interleave at the store reads.                                          *)
(***************************************************************************)
\* the requests of the calls: without filter; a metric filter, a category
\* and a search term; a metric filter ranked by its metric in either
\* direction; a candle filter ranked by the close; a sort directive alone
ConcRequests ==
  { [filters |-> EmptyDict, search |-> None],
    ActiveContext,
    [filters |-> ("peMax" :> Str(<<"1">>)) @@ ("peSortDirection" :> "Asc"),
     search |-> None],
    [filters |-> ("latestCloseMin" :> Str(<<"0">>))
                 @@ ("latestCloseSortDirection" :> "Desc"),
     search |-> None],
    [filters |-> "peSortDirection" :> "Desc", search |-> None] }

InitConc ==
  \E shift \in 0..(NumTickers + 1) :
    \E r1 \in ConcRequests, r2 \in ConcRequests :
      /\ PairStores(shift, FieldsUsed(r1.filters @@ r2.filters))
      /\ CallsStart((1 :> r1) @@ (2 :> r2))

SpecConc == InitConc /\ [][Next]_vars

(***************************************************************************)
(* Specification SpecCandle: one call with candle filters against a        *)
(* LatestCandle collection in which a ticker has a daily candle, a         *)
(* 1-minute candle, both or none.                                          *)
(***************************************************************************)
\* per ticker: no daily candle (two entries), or one of close v and volume -v
DailyChoices ==
  << None >> \o
  WithAbsent([k \in 1..Len(WholeVals) |->
                [resolution |-> "D", close |-> WholeVals[k],
                 volume |-> WholeVals[Len(WholeVals) + 1 - k]]])

\* per ticker: no 1-minute candle, or one of close v and volume v
MinuteChoices ==
  WithAbsent([k \in 1..Len(WholeVals) |->
                [resolution |-> "1", close |-> WholeVals[k], volume |-> WholeVals[k]]])

\* the candle filters: each threshold absent or "0", each operator absent
\* (the default of filters.get), "gte" or "ne"
CandleFilterInputs ==
  { Entry("latestCloseMin", cv) @@ Entry("latestCloseOperator", co)
    @@ Entry("latestVolumeMin", vv) @@ Entry("latestVolumeOperator", vo) :
      cv \in {None, Some(Str(<<"0">>))}, vv \in {None, Some(Str(<<"0">>))},
      co \in {None, Some("gte"), Some("ne")}, vo \in {None, Some("gte"), Some("ne")} }

InitCandle ==
  \E s1 \in 0..(Len(DailyChoices) - 1), s2 \in 0..(Len(MinuteChoices) - 1) :
    \E fl \in CandleFilterInputs,
       fx \in { EmptyDict, ("peMax" :> Str(<<"1">>)) @@ ("latestCloseSortDirection" :> "Asc") } :
      /\ bfStore = Staggered(UniformBfChoices(FieldsUsed(fx)), s1)
      /\ lcStore = CandleDocs(Staggered(DailyChoices, s1))
                     \cup CandleDocs(Staggered(MinuteChoices, s2))
      /\ cpStore = AllProfiled
      /\ CallsStart(OneCall(fl @@ fx, None))

SpecCandle == InitCandle /\ [][Next]_vars

(***************************************************************************)
(* Specification SpecNarrow: two calls against the same stores, call 1     *)
(* with one more filter than call 2, and this filter has a predicate.      *)
(* The profiles are staggered apart from the other two stores, so that a   *)
(* ticker can have a BasicFinancials document or a candle and no profile.  *)
(***************************************************************************)
\* the requests a filter is added to: without filter; without active
\* predicate; a search term alone; a metric, a category and a search term;
\* a candle filter
NarrowContexts ==
  { [filters |-> EmptyDict, search |-> None],
    NoOpContext,
    [filters |-> EmptyDict, search |-> Some(<<"a">>)],
    ActiveContext,
    [filters |-> "latestVolumeMin" :> Str(<<"1">>), search |-> None] }

\* the filter added: [key, value]
AddedFilters ==
  { [key |-> "peMax", value |-> Str(<<"0">>)],
    [key |-> "netMarginMin", value |-> Str(<<"0">>)],
    [key |-> "latestCloseMin", value |-> Str(<<"0">>)],
    [key |-> "latestVolumeMin", value |-> Str(<<"0">>)],
    [key |-> "sector", value |-> "Technology"],
    [key |-> "industry", value |-> "Software"] }

InitNarrow ==
  \E shift \in 0..(NumTickers + 1), s3 \in 0..(Len(CpChoices) - 1) :
    \E ctx \in NarrowContexts, add \in AddedFilters :
      LET reqs == KeyPair(ctx, add.key, add.value, EmptyDict) IN
      /\ bfStore = Staggered(UniformBfChoices(FieldsUsed(reqs[1].filters)), shift)
      /\ lcStore = CandleDocs(Staggered(LcChoices, shift + 2))
      /\ cpStore = Staggered(CpChoices, s3)
      /\ CallsStart(reqs)

SpecNarrow == InitNarrow /\ [][Next]_vars

(***************************************************************************)
(* Specification SpecIngest: one call with a filter on P/E, while the      *)
(* ingestion jobs store the data of the next refresh, which moves every    *)
(* ticker to another content of BasicFinancials and of LatestCandle.       *)
(***************************************************************************)
\* a metric filter with a candle filter, and a metric filter ranked by its
\* own metric in either direction
IngestRequests ==
  { [filters |-> ("peMax" :> Str(<<"0">>)) @@ ("latestCloseMin" :> Str(<<"0">>))
                 @@ ("latestCloseOperator" :> "gte"),
     search |-> None],
    [filters |-> ("peMax" :> Str(<<"0">>)) @@ ("peSortDirection" :> "Asc"),
     search |-> None],
    [filters |-> ("peMax" :> Str(<<"0">>)) @@ ("peSortDirection" :> "Desc"),
     search |-> None] }

InitIngest ==
  \E shift \in 0..NumTickers, r \in IngestRequests :
    /\ PairStores(shift, FieldsUsed(r.filters))
    /\ feed = [bf |-> Staggered(UniformBfChoices(FieldsUsed(r.filters)), shift + 2),
               lc |-> Staggered(LcChoices, shift + 5)]
    /\ evaluations =
         1 :> {FinalTickerSet(bfStore, lcStore, cpStore, r.filters, r.search)}
    /\ LocalsStart(OneCall(r.filters, r.search))

SpecIngest == InitIngest /\ [][NextIngest]_vars

(***************************************************************************)
(* Vocabulary of the properties.                                           *)
(***************************************************************************)
Done(c) == pc[c] = "done"

\* the tickers of the returned list
Returned(c) == {response[c][1].symbols[i] : i \in 1..Len(response[c][1].symbols)}

\* the positions of ticker t in the returned list
Positions(c, t) ==
  {i \in 1..Len(response[c][1].symbols) : response[c][1].symbols[i] = t}

\* metric m has a value that parses in the filters of call c
HasValue(c, m) == ParsedFilter(request[c].filters, m.filter_key) # None

\* the condition call c compiled for metric m (empty when it compiled none)
CompiledCond(c, m) ==
  IF m.source = "bf" THEN GetOr(bf_query[c], m.field, EmptyDict)
  ELSE GetOr(lc_query[c], m.field, EmptyDict)

\* the tickers that have a document in the source owning metric m (for the
\* candles: a document of daily resolution)
Owned(m) ==
  IF m.source = "bf" THEN DOMAIN bfStore
  ELSE {d.ticker : d \in {e \in lcStore : e.resolution = "D"}}

\* the value stored for metric m and ticker t of Owned(m), None when null
StoredValue(m, t) ==
  IF m.source = "bf" THEN MetricOf(bfStore[t], m.field)
  ELSE Some((CHOOSE d \in lcStore : d.ticker = t /\ d.resolution = "D")[m.field])

\* the filter keys whose default operator is lte, as the interface table
\* states them: the Max keys and the two candle keys
LteDefaultKeys ==
  {"peMax", "forwardPeMax", "pegMax", "pbMax", "psMax", "evEbitdaMax",
   "evFcfMax", "deRatioMax", "latestCloseMin", "latestVolumeMin"}

StatedDefault(m) == IF m.filter_key \in LteDefaultKeys THEN "lte" ELSE "gte"

\* the filter keys of the percent families: profitability, growth, price return
PercentKeys ==
  {"netMarginMin", "operMarginMin", "grossMarginMin", "roeMin", "roaMin", "roiMin",
   "revGrowthYoyMin", "revGrowth3YMin", "revGrowth5YMin", "epsGrowthYoyMin",
   "epsGrowth3YMin", "epsGrowth5YMin", "cashFlowGrowthMin", "ebitdaGrowthMin",
   "ytdReturnMin", "return5DMin", "return1MMin", "return3MMin", "relSp5001YMin"}

\* call c gives metric m an operator string outside the six recognized ones
UnrecognizedOperator(c, m) ==
  /\ m.operator_key \in DOMAIN request[c].filters
  /\ request[c].filters[m.operator_key] \notin DOMAIN operator_map

MetricsOfScreen == {ScreenMetrics[i] : i \in 1..Len(ScreenMetrics)}

(***************************************************************************)
(* C4.  Unrecognized operator strings.                                     *)
(***************************************************************************)
\* C4 as stated: a parseable value with an operator string outside
\* {lte, lt, gte, gt, eq, ne} compiles to the predicate of the metric's
\* default operator, and the call returns.
C4_FallsBackToMetricDefault ==
  \A c \in Calls : Done(c) =>
    /\ response[c] # None
    /\ \A m \in MetricsOfScreen :
         HasValue(c, m) /\ UnrecognizedOperator(c, m) =>
           DOMAIN CompiledCond(c, m) = {operator_map[StatedDefault(m)]}

\* C4 as amended: a parseable value with an operator string outside
\* {lte, lt, gte, gt, eq, ne} compiles to a gte predicate for every metric,
\* whatever the metric's default operator, and the call returns.
C4_FallsBackToGte ==
  \A c \in Calls : Done(c) =>
    /\ response[c] # None
    /\ \A m \in MetricsOfScreen :
         HasValue(c, m) /\ UnrecognizedOperator(c, m) =>
           /\ DOMAIN CompiledCond(c, m) = {"$gte"}
           /\ \A t \in Owned(m) :
                t \in Returned(c) <=>
                  /\ StoredValue(m, t) # None
                  /\ StoredValue(m, t)[1] >= CompiledCond(c, m)["$gte"]

\* an lte-default metric was given an unrecognized operator and the call
\* returned the tickers at or above the threshold, leaving out one below
C4_Witness ==
  \E c \in Calls : \E m \in MetricsOfScreen :
    /\ Done(c) /\ HasValue(c, m) /\ UnrecognizedOperator(c, m)
    /\ StatedDefault(m) = "lte"
    /\ Returned(c) # {}
    /\ \E t \in Owned(m) : StoredValue(m, t) # None /\ t \notin Returned(c)

(***************************************************************************)
(* C5.  Default operators.                                                 *)
(***************************************************************************)
\* C5: a parseable value without an operator key compiles to the metric's
\* default operator (lte for the Max keys and the two candle keys, gte for
\* the other keys), and the call returns what the same filters with that
\* operator given explicitly return.
C5_OperatorDefault ==
  \A c \in Calls : Done(c) =>
    \A m \in MetricsOfScreen :
      HasValue(c, m) /\ m.operator_key \notin DOMAIN request[c].filters =>
        /\ DOMAIN CompiledCond(c, m) = {operator_map[StatedDefault(m)]}
        /\ response[c][1] =
             Screener(bfStore, lcStore, cpStore,
                      (m.operator_key :> StatedDefault(m)) @@ request[c].filters,
                      request[c].search)

\* a call without operator key on an lte-default metric returned some ticker
\* and left out one that has a value
C5_Witness ==
  \E c \in Calls : \E m \in MetricsOfScreen :
    /\ Done(c) /\ HasValue(c, m)
    /\ m.operator_key \notin DOMAIN request[c].filters
    /\ m.filter_key \in {"peMax", "latestCloseMin"}
    /\ Returned(c) # {}
    /\ \E t \in Owned(m) : StoredValue(m, t) # None /\ t \notin Returned(c)

(***************************************************************************)
(* C6.  Percent metrics.                                                   *)
(***************************************************************************)
\* the threshold the claim gives metric m for the parsed user value v
StatedThreshold(m, v) == IF m.filter_key \in PercentKeys THEN v \div 100 ELSE v

\* C6: the threshold compared against the stored value is the user value
\* divided by 100 for the percent metrics and the user value itself for the
\* others; with the single filter of this specification the call returns
\* exactly the tickers whose stored value stands in the compiled operator's
\* relation to that threshold.
C6_PercentSemantics ==
  \A c \in Calls : Done(c) =>
    \A m \in MetricsOfScreen :
      HasValue(c, m) =>
        LET v    == ParsedFilter(request[c].filters, m.filter_key)[1]
            cond == CompiledCond(c, m)
        IN /\ \A mongo_op \in DOMAIN cond : cond[mongo_op] = StatedThreshold(m, v)
           /\ DOMAIN cond # {}
           /\ \A t \in Owned(m) :
                t \in Returned(c) <=>
                  \A mongo_op \in DOMAIN cond :
                    MatchesOp(mongo_op, StatedThreshold(m, v), StoredValue(m, t))

\* {netMarginMin: "15%"} with the default operator: a ticker storing 0.15 is
\* returned and a ticker storing 0.14 is not
C6_Witness ==
  \E c \in Calls :
    /\ Done(c)
    /\ DOMAIN request[c].filters = {"netMarginMin"}
    /\ request[c].filters["netMarginMin"] = Str(<<"1", "5", "%">>)
    /\ \E t \in DOMAIN bfStore :
         MetricOf(bfStore[t], "netProfitMarginTTM") = Some(1500) /\ t \in Returned(c)
    /\ \E t \in DOMAIN bfStore :
         MetricOf(bfStore[t], "netProfitMarginTTM") = Some(1400) /\ t \notin Returned(c)

(***************************************************************************)
(* Vocabulary of the ranking properties.                                   *)
(***************************************************************************)
\* call c has returned from the sorting branch
Sorted(c) ==
  Done(c) /\ sort_choice[c].sort_direction # None /\ ticker_set[c][1] # {}

SortedAsc(c) == Sorted(c) /\ sort_choice[c].sort_direction = Some("Asc")

SortedDesc(c) == Sorted(c) /\ sort_choice[c].sort_direction = Some("Desc")

\* the sort metric of call c and its owning source
RankMetric(c) ==
  [source |-> IF sort_choice[c].sort_metric_key[1] \in {"close", "volume"}
                THEN "lc" ELSE "bf",
   field  |-> sort_choice[c].sort_metric_key[1]]

\* the final candidate set of call c
Candidates(c) == ticker_set[c][1]

\* candidates with a document in the owning source / without one
WithRecord(c) == Candidates(c) \cap Owned(RankMetric(c))
WithoutRecord(c) == Candidates(c) \ Owned(RankMetric(c))

\* candidates with a document whose sort field is null / is a number
NullValued(c) == {t \in WithRecord(c) : StoredValue(RankMetric(c), t) = None}
RealValued(c) == {t \in WithRecord(c) : StoredValue(RankMetric(c), t) # None}
RealValue(c, t) == StoredValue(RankMetric(c), t)[1]

\* every occurrence of t in the returned list precedes every occurrence of u
Precedes(c, t, u) ==
  /\ Positions(c, t) # {} /\ Positions(c, u) # {}
  /\ \A i \in Positions(c, t), j \in Positions(c, u) : i < j

(***************************************************************************)
(* C2.  The ascending example.                                             *)
(***************************************************************************)
\* C2 as stated: when the candidates are a ticker with a real value, a ticker
\* with a document whose value is null and a ticker without document, the
\* ascending sort returns exactly these three in that order.
C2_AscendingExample ==
  \A c \in Calls : SortedAsc(c) =>
    \A a \in RealValued(c), b \in NullValued(c), n \in WithoutRecord(c) :
      Candidates(c) = {a, b, n} => response[c][1].symbols = << a, b, n >>

(***************************************************************************)
(* C3.  Tickers without document in the owning source.                     *)
(***************************************************************************)
\* C3 as stated: in either direction the candidates without document take
\* no part in the primary sort: the returned list is the candidates with a
\* document followed by one alphabetical tail of those without.
C3_AbsentOnlyInTail ==
  \A c \in Calls : Sorted(c) =>
    LET symbols == response[c][1].symbols
        k == Cardinality(WithRecord(c))
    IN /\ Len(symbols) = Cardinality(Candidates(c))
       /\ \A i \in 1..Len(symbols) :
            IF i <= k THEN symbols[i] \in WithRecord(c)
            ELSE symbols[i] \in WithoutRecord(c)
       /\ \A i, j \in (k + 1)..Len(symbols) :
            i < j => StrLess(symbols[i], symbols[j])

(***************************************************************************)
(* C9.  Ascending order: null values last.                                 *)
(***************************************************************************)
\* C9: under Asc every candidate with a document whose sort field is null
\* comes after every candidate with a real value, whatever that value.
C9_AscNullAfterReal ==
  \A c \in Calls : SortedAsc(c) =>
    \A t \in NullValued(c), u \in RealValued(c) : Precedes(c, u, t)

\* an ascending sort ranked a null-valued ticker after a ticker of positive
\* value, although the null-valued ticker has the smaller symbol
C9_Witness ==
  \E c \in Calls :
    /\ SortedAsc(c)
    /\ \E t \in NullValued(c), u \in RealValued(c) :
         RealValue(c, u) > 0 /\ StrLess(t, u) /\ Precedes(c, u, t)
    /\ \E t \in NullValued(c), u \in RealValued(c) : RealValue(c, u) < 0

ValidDirectives(c) ==
  {i \in 1..Len(sort_metric_mapping) :
     /\ sort_metric_mapping[i][1] \in DOMAIN request[c].filters
     /\ request[c].filters[sort_metric_mapping[i][1]] \in {"Asc", "Desc"}}

FirstValid(c) == CHOOSE i \in ValidDirectives(c) : \A k \in ValidDirectives(c) : i <= k

\* C8: the directive used is the first key, in the declared order, whose
\* value is exactly "Asc" or "Desc"; keys with another value are skipped and
\* later keys are ignored: tickers come out in the order of that key's
\* metric, in that key's direction.
C8_FirstMatchWins ==
  \A c \in Calls : Done(c) /\ ValidDirectives(c) # {} =>
    LET key    == sort_metric_mapping[FirstValid(c)][1]
        field  == sort_metric_mapping[FirstValid(c)][2]
        metric == [source |-> IF field \in {"close", "volume"} THEN "lc" ELSE "bf",
                   field |-> field]
        dir    == request[c].filters[key]
        value(t) == StoredValue(metric, t)[1]
    IN /\ sort_choice[c] = [sort_direction_key |-> Some(key),
                            sort_direction |-> Some(dir),
                            sort_metric_key |-> Some(field)]
       /\ \A t, u \in Candidates(c) \cap Owned(metric) :
            value(t) < value(u) =>
              IF dir = "Asc" THEN Precedes(c, t, u) ELSE Precedes(c, u, t)

\* peSortDirection Asc together with roeSortDirection Desc: two tickers came
\* out by ascending P/E although descending ROE orders them the other way
C8_Witness ==
  \E c \in Calls :
    /\ Done(c)
    /\ request[c].filters = ("peSortDirection" :> "Asc") @@ ("roeSortDirection" :> "Desc")
    /\ \E t, u \in Candidates(c) :
         /\ MetricOf(bfStore[t], "peTTM")[1] < MetricOf(bfStore[u], "peTTM")[1]
         /\ MetricOf(bfStore[t], "roeTTM")[1] < MetricOf(bfStore[u], "roeTTM")[1]
         /\ Precedes(c, t, u)

(***************************************************************************)
(* Vocabulary of the filtering properties.                                 *)
(***************************************************************************)
MetricsOf(source) == {m \in MetricsOfScreen : m.source = source}

\* source has at least one metric with a parseable value in call c
SourceActive(c, source) == \E m \in MetricsOf(source) : HasValue(c, m)

\* ticker t satisfies, in the store that owns it, the predicate call c
\* compiled for metric m
Satisfies(c, m, t) ==
  t \in Owned(m) /\ MatchesCond(CompiledCond(c, m), StoredValue(m, t))

\* the tickers satisfying every predicate of call c on the source
SourceMatches(c, source) ==
  {t \in Tickers : \A m \in MetricsOf(source) : HasValue(c, m) => Satisfies(c, m, t)}
  \cap (IF source = "bf" THEN DOMAIN bfStore
        ELSE {d.ticker : d \in {e \in lcStore : e.resolution = "D"}})

SectorPresent(c) ==
  /\ "sector" \in DOMAIN request[c].filters
  /\ request[c].filters["sector"] \notin {"", "Any"}

IndustryPresent(c) ==
  /\ "industry" \in DOMAIN request[c].filters
  /\ request[c].filters["industry"] \notin {"", "Any"}

\* field of the profile of t holds the value
ProfileHas(t, field, value) ==
  t \in DOMAIN cpStore /\ field \in DOMAIN cpStore[t] /\ cpStore[t][field] = value

SectorHolds(c, t) ==
  \/ ProfileHas(t, "gsector", request[c].filters["sector"])
  \/ ProfileHas(t, "finnhubIndustry", request[c].filters["sector"])

IndustryHolds(c, t) ==
  \/ ProfileHas(t, "gind", request[c].filters["industry"])
  \/ ProfileHas(t, "finnhubIndustry", request[c].filters["industry"])

\* the tickers satisfying the category predicates of call c
CategoryMatches(c) ==
  {t \in DOMAIN cpStore : /\ SectorPresent(c) => SectorHolds(c, t)
                          /\ IndustryPresent(c) => IndustryHolds(c, t)}

(***************************************************************************)
(* C1.  No false positives.                                                *)
(***************************************************************************)
\* C1: every returned ticker satisfies every compiled predicate in the store
\* that owns it: the metric predicates in BasicFinancials, the close and
\* volume predicates in its daily candle, the sector and industry predicates
\* in its profile.
C1_NoFalsePositives ==
  \A c \in Calls : Done(c) =>
    \A t \in Returned(c) :
      /\ \A m \in MetricsOfScreen : HasValue(c, m) => Satisfies(c, m, t)
      /\ SectorPresent(c) => SectorHolds(c, t)
      /\ IndustryPresent(c) => IndustryHolds(c, t)

\* a call with two metric predicates, a candle predicate, a sector and a
\* search term returned some ticker and left out a ticker that satisfies the
\* candle predicate only
C1_Witness ==
  \E c \in Calls :
    /\ Done(c)
    /\ {"peMax", "netMarginMin", "latestCloseMin", "sector"} \subseteq DOMAIN request[c].filters
    /\ request[c].search # None
    /\ Returned(c) # {}
    /\ \E t \in SourceMatches(c, "lc") \ SourceMatches(c, "bf") : t \notin Returned(c)

(***************************************************************************)
(* C7.  The candidate set is the intersection over the active sources.     *)
(***************************************************************************)
\* the intersection, over the sources with an active predicate, of the
\* tickers matching the source's predicates
ActiveIntersection(c) ==
  (IF SourceActive(c, "bf") THEN SourceMatches(c, "bf") ELSE Tickers)
  \cap (IF SourceActive(c, "lc") THEN SourceMatches(c, "lc") ELSE Tickers)
  \cap (IF SectorPresent(c) \/ IndustryPresent(c) THEN CategoryMatches(c) ELSE Tickers)

AnySourceActive(c) ==
  \/ SourceActive(c, "bf") \/ SourceActive(c, "lc")
  \/ SectorPresent(c) \/ IndustryPresent(c)

\* C7: after the source queries and before the search overlay, the candidate
\* set of a call with an active source is exactly the intersection of the
\* active sources' matching sets (and still unconstrained when none is).
C7_CandidateIntersection ==
  \A c \in Calls :
    /\ pc[c] = "all" =>
         IF AnySourceActive(c) THEN ticker_set[c] = Some(ActiveIntersection(c))
         ELSE ticker_set[c] = None
    /\ pc[c] = "search" /\ AnySourceActive(c) =>
         ticker_set[c] = Some(ActiveIntersection(c))

\* the three sources are active, the candidate set is not empty, a ticker
\* matching BasicFinancials was removed by a later source, and a ticker
\* matching LatestCandle was never in the set
C7_Witness ==
  \E c \in Calls :
    /\ pc[c] = "search"
    /\ SourceActive(c, "bf") /\ SourceActive(c, "lc") /\ SectorPresent(c)
    /\ ticker_set[c] # Some({})
    /\ SourceMatches(c, "bf") \ ticker_set[c][1] # {}
    /\ SourceMatches(c, "lc") \ SourceMatches(c, "bf") # {}

(***************************************************************************)
(* C11.  Ties break by ascending ticker symbol in both directions.         *)
(***************************************************************************)
\* C11: in the sorted output, under Asc and under Desc, two candidates with
\* documents whose sort values are equal (the same number, or both null)
\* come out in ascending ticker-symbol order.
C11_TiesByAscendingTicker ==
  \A c \in Calls : Sorted(c) =>
    \A t, u \in WithRecord(c) :
      /\ StoredValue(RankMetric(c), t) = StoredValue(RankMetric(c), u)
      /\ StrLess(t, u)
      => Precedes(c, t, u)

\* a descending sort returned two tickers of one real value in ascending
\* symbol order, after a ticker of greater value whose symbol is the largest
C11_Witness ==
  \E c \in Calls :
    /\ SortedDesc(c)
    /\ \E t, u, w \in RealValued(c) :
         /\ RealValue(c, t) = RealValue(c, u) /\ RealValue(c, u) < RealValue(c, w)
         /\ StrLess(t, u) /\ StrLess(u, w)
         /\ Precedes(c, w, t) /\ Precedes(c, t, u)

(***************************************************************************)
(* C12.  Without a valid sort directive the order is alphabetical.         *)
(***************************************************************************)
\* the keys of the sort mapping
SortDirectionKeys ==
  {sort_metric_mapping[i][1] : i \in 1..Len(sort_metric_mapping)}

\* C12: when no sort-direction key of the call is "Asc" or "Desc" (absent,
\* empty or another string), the returned list is the final candidate set
\* in ascending ticker order, each ticker once.
C12_DefaultAlphabetical ==
  \A c \in Calls : Done(c) /\ ValidDirectives(c) = {} =>
    LET symbols == response[c][1].symbols IN
    /\ Returned(c) = Candidates(c)
    /\ Len(symbols) = Cardinality(Candidates(c))
    /\ \A i, j \in 1..Len(symbols) : i < j => StrLess(symbols[i], symbols[j])

\* a call whose only sort-direction key is "asc" returned three tickers
C12_Witness ==
  \E c \in Calls :
    /\ Done(c)
    /\ \E k \in SortDirectionKeys \cap DOMAIN request[c].filters :
         request[c].filters[k] = "asc"
    /\ ValidDirectives(c) = {}
    /\ Len(response[c][1].symbols) >= 3

(***************************************************************************)
(* C13.  The unfiltered default.                                           *)
(***************************************************************************)
\* the search term is absent, empty or made of spaces
BlankSearch(search) ==
  search = None \/ \A i \in 1..Len(search[1]) : search[1][i] = " "

\* C13: a call without active metric, candle or category predicate and
\* without search term returns the tickers of the CompanyProfile documents,
\* all of them and no other.
C13_UnfilteredDefault ==
  \A c \in Calls :
    Done(c) /\ ~AnySourceActive(c) /\ BlankSearch(request[c].search) =>
      Returned(c) = DOMAIN cpStore

\* a call with an unknown key, an unparseable value, the sector "Any", an
\* empty industry and a sort directive returned the two or more profiled
\* tickers and not a ticker that BasicFinancials alone holds
C13_Witness ==
  \E c \in Calls :
    /\ Done(c)
    /\ ~AnySourceActive(c)
    /\ {"fooMax", "pbMax", "sector", "industry", "roeSortDirection"}
          \subseteq DOMAIN request[c].filters
    /\ request[c].search = None
    /\ Cardinality(DOMAIN cpStore) >= 2
    /\ DOMAIN bfStore \ DOMAIN cpStore # {}
    /\ Returned(c) = DOMAIN cpStore

(***************************************************************************)
(* C14.  The search overlay.                                               *)
(***************************************************************************)
\* s contains q, letter case ignored
ContainsIgnoringCase(s, q) == Contains(Upper(s), Upper(q))

\* the profile of t has a company name that contains q, case ignored
NameContains(t, q) ==
  /\ t \in DOMAIN cpStore
  /\ "name" \in DOMAIN cpStore[t]
  /\ ContainsIgnoringCase(cpStore[t]["name"], q)

\* C14: the step over the search overlay, for a search term that is not
\* blank and whose trimmed form is q, takes the candidate set S to the
\* tickers of S whose symbol contains q united with the tickers of S whose
\* profile's company name contains q, case ignored.
C14_SearchOverlay ==
  [][\A c \in Calls :
       pc[c] = "search" /\ pc'[c] = "sort" /\ ~BlankSearch(request[c].search) =>
         LET q == Strip(request[c].search[1])
             S == ticker_set[c][1]
         IN ticker_set'[c] = Some({t \in S : ContainsIgnoringCase(t, q)}
                                   \cup {t \in S : NameContains(t, q)})]_vars

\* after the overlay for "a" the candidate set holds a ticker whose symbol
\* has no "A", kept for its company name, and a ticker without profile,
\* kept for its symbol
C14_Witness ==
  \E c \in Calls :
    /\ pc[c] = "sort"
    /\ request[c].search = Some(<<"a">>)
    /\ \E t \in ticker_set[c][1] :
         ~ContainsIgnoringCase(t, <<"a">>) /\ NameContains(t, <<"a">>)
    /\ \E u \in ticker_set[c][1] : u \notin DOMAIN cpStore

(***************************************************************************)
(* C15.  A blank search term changes nothing.                              *)
(***************************************************************************)
\* C15: a call whose search term is absent, empty or made of spaces returns
\* the list and total returned by the call with the same filters and no
\* search term.
C15_BlankSearchNoOp ==
  \A c, d \in Calls :
    /\ Done(c) /\ Done(d)
    /\ request[c].filters = request[d].filters
    /\ BlankSearch(request[c].search) /\ request[d].search = None
    => response[c] = response[d]

\* a call with a metric and a sector filter and the search term "  "
\* returned the non-empty list of the call without search term, a list
\* that leaves out a profiled ticker
C15_Witness ==
  \E c, d \in Calls :
    /\ Done(c) /\ Done(d)
    /\ request[c].filters = request[d].filters
    /\ {"peMax", "sector"} \subseteq DOMAIN request[c].filters
    /\ request[c].search = Some(<<" ", " ">>) /\ request[d].search = None
    /\ response[c] = response[d]
    /\ Returned(c) # {}
    /\ DOMAIN cpStore \ Returned(c) # {}

(***************************************************************************)
(* C16.  The category "Any" is the omitted category.                       *)
(***************************************************************************)
\* call d makes the request of call c without the key k
SameWithoutKey(c, d, k) ==
  /\ k \in DOMAIN request[c].filters
  /\ request[d].filters = [j \in DOMAIN request[c].filters \ {k} |-> request[c].filters[j]]
  /\ request[d].search = request[c].search

\* C16: a call with sector "Any" (industry "Any") returns the list and
\* total of the call with the same request without the sector (industry) key.
C16_AnyIsOmitted ==
  \A c, d \in Calls : Done(c) /\ Done(d) =>
    \A k \in {"sector", "industry"} :
      SameWithoutKey(c, d, k) /\ request[c].filters[k] = "Any"
        => response[c] = response[d]

\* a call with a metric filter, a search term and the sector "Any" returned
\* the non-empty list of the call without sector key, which holds a ticker
\* whose profile has another sector
C16_Witness ==
  \E c, d \in Calls :
    /\ Done(c) /\ Done(d)
    /\ SameWithoutKey(c, d, "sector")
    /\ request[c].filters["sector"] = "Any"
    /\ "peMax" \in DOMAIN request[c].filters
    /\ response[c] = response[d]
    /\ \E t \in Returned(c) : ProfileHas(t, "gsector", "Finance")

(***************************************************************************)
(* C17.  The category predicates.                                          *)
(***************************************************************************)
\* C17: the step over the CompanyProfile query, when a sector or an industry
\* filter is present, takes the candidate set to the tickers whose profile
\* satisfies every present category filter (the primary field or the
\* fallback field finnhubIndustry equal to the value), restricted to the
\* running candidate set when there is one; without category filter the
\* step changes nothing.
C17_CategoryPredicates ==
  [][\A c \in Calls :
       pc[c] = "cp" /\ pc'[c] = "all" =>
         IF SectorPresent(c) \/ IndustryPresent(c)
           THEN ticker_set'[c] =
                  Some({t \in CategoryMatches(c) :
                          ticker_set[c] = None \/ t \in ticker_set[c][1]})
           ELSE ticker_set'[c] = ticker_set[c]]_vars

\* with a metric filter, a sector and an industry, the candidate set after
\* the query holds a ticker and has lost a ticker matching the metric filter
\* whose profile has the sector, by the fallback field, and not the industry
C17_Witness ==
  \E c \in Calls :
    /\ pc[c] = "all"
    /\ SourceActive(c, "bf") /\ SectorPresent(c) /\ IndustryPresent(c)
    /\ ticker_set[c][1] # {}
    /\ \E u \in SourceMatches(c, "bf") \ ticker_set[c][1] :
         /\ ProfileHas(u, "finnhubIndustry", request[c].filters["sector"])
         /\ ~IndustryHolds(c, u)

(***************************************************************************)
(* C18.  A value that does not parse makes no predicate.                   *)
(***************************************************************************)
\* a string that is a number for float(): an optional sign, then digits
\* with at most one '.', one digit at least
NumberSyntax(s) ==
  LET body == IF s # <<>> /\ Head(s) \in {"+", "-"} THEN Tail(s) ELSE s IN
  /\ \A i \in 1..Len(body) : body[i] \in DOMAIN DigitVal \cup {"."}
  /\ Cardinality({i \in 1..Len(body) : body[i] = "."}) <= 1
  /\ \E i \in 1..Len(body) : body[i] \in DOMAIN DigitVal

\* a raw value that is null, or a string (empty and blank included) whose
\* digits, '.', '+' and '-' alone do not make a number
Unparseable(value) ==
  \/ value.t = "none"
  \/ /\ value.t = "str"
     /\ ~NumberSyntax(SelectSeq(value.s, LAMBDA ch : ch \in DOMAIN DigitVal \cup {".", "+", "-"}))

\* C18: for every metric key, a call giving it a value that does not parse
\* compiles no condition on the metric's field and returns the list and
\* total of the call with the same request without that key.
C18_UnparseableIsNoFilter ==
  \A c \in Calls : \A m \in MetricsOfScreen :
    /\ m.filter_key \in DOMAIN request[c].filters
    /\ Unparseable(request[c].filters[m.filter_key])
    => /\ CompiledCond(c, m) = EmptyDict
       /\ \A d \in Calls :
            Done(c) /\ Done(d) /\ SameWithoutKey(c, d, m.filter_key)
              => response[c] = response[d]

\* a call giving "1-2" to a metric key whose operator key is "gt" returned
\* the list of the call without the metric key, a list holding a ticker
\* whose stored value of the metric is not above 0
C18_Witness ==
  \E c, d \in Calls : \E m \in MetricsOfScreen :
    /\ Done(c) /\ Done(d)
    /\ SameWithoutKey(c, d, m.filter_key)
    /\ request[c].filters[m.filter_key] = Str(<<"1", "-", "2">>)
    /\ m.operator_key \in DOMAIN request[c].filters
    /\ request[c].filters[m.operator_key] = "gt"
    /\ response[c] = response[d]
    /\ \E t \in Returned(c) \cap Owned(m) :
         StoredValue(m, t) # None /\ StoredValue(m, t)[1] <= 0

(***************************************************************************)
(* C19.  The empty string under any key.                                   *)
(***************************************************************************)
\* the keys whose value is parsed as a number
MetricValueKeys == {m.filter_key : m \in MetricsOfScreen}

\* the value under key k is the empty string
EmptyString(k, value) ==
  IF k \in MetricValueKeys THEN value = Str(<<>>) ELSE value = ""

\* C19 as stated: for every key of the filter map (a metric value, sector,
\* industry, a sort direction, a metric's operator), a call giving the key
\* the empty string returns the list and total of the call with the same
\* request without the key.
C19_EmptyStringIsOmitted ==
  \A c, d \in Calls : Done(c) /\ Done(d) =>
    \A k \in DOMAIN request[c].filters :
      SameWithoutKey(c, d, k) /\ EmptyString(k, request[c].filters[k])
        => response[c] = response[d]

(***************************************************************************)
(* C20.  A store query that fails ends the call in failure.                *)
(***************************************************************************)
\* C20: from the moment a store query of a call has failed, whichever of
\* the six queries it is, the call is ended by the exception and has no
\* response, and it stays so: the query is not made again and no symbols
\* list, partial or empty, is ever returned for the call.
C20_StoreFailurePropagates ==
  /\ [](\A c \in Calls : failed[c] # None => pc[c] = "raised" /\ response[c] = None)
  /\ [][\A c \in Calls : failed[c] # None =>
          /\ pc'[c] = pc[c] /\ response'[c] = response[c]
          /\ failed'[c] = failed[c] /\ ticker_set'[c] = ticker_set[c]]_vars

\* the name lookup of the search overlay failed in a call whose candidate
\* set, narrowed by a metric filter, was not empty: the call is ended and
\* has no response
C20_Witness ==
  \E c \in Calls :
    /\ failed[c] = Some("CompanyProfile.find by ticker")
    /\ pc[c] = "raised"
    /\ response[c] = None
    /\ "peMax" \in DOMAIN request[c].filters
    /\ ticker_set[c] # None /\ ticker_set[c][1] # {}

(***************************************************************************)
(* C21.  Determinism.                                                      *)
(***************************************************************************)
\* C21: two calls with the same filters and the same search term, run
\* against stores that do not change, return the same ordered symbols list
\* and the same total, in whatever order each call enumerated its ticker set.
C21_Determinism ==
  \A c, d \in Calls :
    Done(c) /\ Done(d) /\ request[c] = request[d] => response[c] = response[d]

\* two calls with the same request, ranking on a metric, returned the same
\* list, in which two tickers have no number to be ranked by (a null value
\* or no document): only the ticker tells their sort keys apart
C21_Witness ==
  \E c, d \in Calls :
    /\ c # d
    /\ request[c] = request[d]
    /\ Sorted(c) /\ Sorted(d)
    /\ response[c] = response[d]
    /\ \E t, u \in Candidates(c) :
         t # u /\ t \notin RealValued(c) /\ u \notin RealValued(c)

(***************************************************************************)
(* C22.  total is the length of the returned list.                         *)
(***************************************************************************)
\* C22: every call that returns, returns a total equal to the length of
\* its symbols list; a call whose candidate set is empty returns as well,
\* without failure, the empty list and the total 0.
C22_TotalIsLength ==
  \A c \in Calls : Done(c) =>
    /\ response[c] # None /\ failed[c] = None
    /\ response[c][1].total = Len(response[c][1].symbols)
    /\ Candidates(c) = {} => response[c][1] = [symbols |-> <<>>, total |-> 0]

\* one call with predicates that no ticker satisfies returned the empty list
\* and the total 0, another returned a list of two entries or more
C22_Witness ==
  \E c, d \in Calls :
    /\ Done(c) /\ Done(d)
    /\ AnySourceActive(c) /\ Candidates(c) = {}
    /\ response[c] = Some([symbols |-> <<>>, total |-> 0])
    /\ response[d][1].total >= 2
    /\ response[d][1].total = Len(response[d][1].symbols)

(***************************************************************************)
(* C23.  The candle filters read the daily candles only.                   *)
(***************************************************************************)
\* candle document d satisfies every candle predicate call c compiled
CandleSatisfies(c, d) ==
  \A m \in MetricsOf("lc") :
    HasValue(c, m) => MatchesCond(CompiledCond(c, m), Some(d[m.field]))

C24_CallsDoNotInterfere ==
  /\ [](\A c \in Calls : Done(c) =>
          response[c] = Some(Screener(bfStore, lcStore, cpStore,
                                      request[c].filters, request[c].search)))
  /\ [][stores' = stores]_vars

\* two calls with different requests, one of them with a metric filter the
\* other has not, have both returned, each a list of its own
C24_Witness ==
  \E c, d \in Calls :
    /\ Done(c) /\ Done(d)
    /\ DOMAIN bf_query[c] # {} /\ DOMAIN bf_query[d] = {}
    /\ Returned(c) # {} /\ Returned(d) # {}
    /\ response[c] # response[d]

(***************************************************************************)
(* C25.  No snapshot across BasicFinancials and LatestCandle.              *)
(***************************************************************************)
\* C25: the BasicFinancials read and the LatestCandle read of a call are
\* two steps, each against its collection as it is at that step: the first
\* sets the candidate set to the tickers matching the metric predicates
\* then, the second intersects that set, as it was left, with the tickers
\* matching the candle predicates then, and a write of the ingestion jobs
\* in between changes nothing the call holds.  (The witness is the outcome
\* the claim names: a returned set that the query selects from none of the
\* store contents there were during the call.)
C25_NoCrossStoreSnapshot ==
  [][\A c \in Calls :
       /\ pc[c] = "bf" /\ pc'[c] = "lc" /\ SourceActive(c, "bf") =>
            ticker_set'[c] = Some(SourceMatches(c, "bf"))
       /\ pc[c] = "lc" /\ pc'[c] = "cp" /\ SourceActive(c, "lc") /\ ticker_set[c] # None =>
            ticker_set'[c] = Some(ticker_set[c][1] \cap SourceMatches(c, "lc")')
       /\ stores' # stores =>
            /\ ticker_set'[c] = ticker_set[c] /\ pc'[c] = pc[c]
            /\ response'[c] = response[c]]_vars

\* a call with a metric and a candle predicate returned a candidate set
\* that the query selects from none of the store contents there were while
\* it ran, with a ticker in it that satisfied both predicates in none
C25_Witness ==
  \E c \in Calls :
    /\ Done(c) /\ SourceActive(c, "bf") /\ SourceActive(c, "lc")
    /\ Candidates(c) \notin evaluations[c]
    /\ \E t \in Returned(c) : \A E \in evaluations[c] : t \notin E

(***************************************************************************)
(* C26.  No ticker twice in the returned list.                             *)
(***************************************************************************)
\* C26 as stated: the returned list is a permutation of the final candidate
\* set: every candidate is in it once, nothing else is, and total is the
\* number of candidates, also when candidates have no document in the
\* source that owns the sort metric.
C26_NoTickerTwice ==
  \A c \in Calls : Done(c) =>
    /\ Returned(c) = Candidates(c)
    /\ \A t \in Candidates(c) : Cardinality(Positions(c, t)) = 1
    /\ response[c][1].total = Cardinality(Candidates(c))

(***************************************************************************)
(* C27.  An active source that matches nothing empties the result.         *)
(***************************************************************************)
\* the query of some active source of call c returned no ticker: the metric
\* query, the candle query, or the category query (which, when candidates
\* exist already, is restricted to them)
SomeQueryEmpty(c) ==
  \/ SourceActive(c, "bf") /\ SourceMatches(c, "bf") = {}
  \/ SourceActive(c, "lc") /\ SourceMatches(c, "lc") = {}
  \/ (SectorPresent(c) \/ IndustryPresent(c)) /\ ActiveIntersection(c) = {}

\* C27: a call in which an active source's query returned no ticker returns
\* symbols = []; a candidate set that has become the empty set stays the
\* empty set through every later step, the default to all profile tickers
\* being taken only by a call without active predicate.
C27_EmptySourceEmptiesResult ==
  /\ [](\A c \in Calls : Done(c) /\ SomeQueryEmpty(c) =>
          response[c][1] = [symbols |-> <<>>, total |-> 0])
  /\ [][\A c \in Calls : ticker_set[c] = Some({}) => ticker_set'[c] = Some({})]_vars
  /\ [][\A c \in Calls : pc[c] = "all" /\ pc'[c] = "search" /\ AnySourceActive(c) =>
          ticker_set'[c] = ticker_set[c]]_vars

\* a call whose metric query matched nothing, while its candle query
\* matched some ticker and profiles exist, returned the empty list
C27_Witness ==
  \E c \in Calls :
    /\ Done(c)
    /\ SourceActive(c, "bf") /\ SourceMatches(c, "bf") = {}
    /\ SourceActive(c, "lc") /\ SourceMatches(c, "lc") # {}
    /\ DOMAIN cpStore # {}
    /\ response[c][1].symbols = <<>>

(***************************************************************************)
(* C28.  Sorting neither drops nor invents tickers.                        *)
(***************************************************************************)
\* C28: whatever the sort directive and the store contents, the set of the
\* tickers in the returned list is the final candidate set; the candidates
\* whose sort value is null and those without document in the source that
\* owns the sort metric are in the list.
C28_SortKeepsTheSet ==
  \A c \in Calls : Done(c) => Returned(c) = Candidates(c)

\* a call ranked candidates of which one has a number, one a null value
\* and one no document, and returned all of them
C28_Witness ==
  \E c \in Calls :
    /\ Sorted(c)
    /\ RealValued(c) # {} /\ NullValued(c) # {} /\ WithoutRecord(c) # {}
    /\ Returned(c) = Candidates(c)

(***************************************************************************)
(* C29.  Adding a filter only narrows.                                     *)
(***************************************************************************)
\* key k of call c carries a predicate: a metric or candle value that
\* parses, or a sector or industry other than "" and "Any"
ActiveFilterKey(c, k) ==
  \/ k \in MetricValueKeys /\ ParsedFilter(request[c].filters, k) # None
  \/ k = "sector" /\ SectorPresent(c)
  \/ k = "industry" /\ IndustryPresent(c)

\* C29 as stated: whatever request call d makes, with or without active
\* predicate, a call c making the same request with one more filter that
\* has a predicate returns no ticker that d does not return.
C29_AddingFilterNarrows ==
  \A c, d \in Calls : Done(c) /\ Done(d) =>
    \A k \in DOMAIN request[c].filters :
      SameWithoutKey(c, d, k) /\ ActiveFilterKey(c, k) => Returned(c) \subseteq Returned(d)

\* C29 amended: the same, for a request of d that has an active predicate
\* already, or an added filter that is a sector or an industry.
C29_AddingFilterNarrowsActive ==
  \A c, d \in Calls : Done(c) /\ Done(d) =>
    \A k \in DOMAIN request[c].filters :
      /\ SameWithoutKey(c, d, k) /\ ActiveFilterKey(c, k)
      /\ AnySourceActive(d) \/ k \in {"sector", "industry"}
      => Returned(c) \subseteq Returned(d)

\* a candle filter added to a request with a candle predicate removed a
\* ticker and kept another, and a ticker without profile has a
\* BasicFinancials document
C29_Witness ==
  \E c, d \in Calls :
    /\ Done(c) /\ Done(d)
    /\ SameWithoutKey(c, d, "latestCloseMin") /\ ActiveFilterKey(c, "latestCloseMin")
    /\ SourceActive(d, "lc")
    /\ Returned(c) # {} /\ Returned(c) # Returned(d)
    /\ Returned(c) \subseteq Returned(d)
    /\ DOMAIN bfStore \ DOMAIN cpStore # {}

(***************************************************************************)
(* C30.  Filter and rank are two reads of the owning source.               *)
(***************************************************************************)
\* C30: the step that ranks reads the documents of the candidates as they
\* are then.  Every candidate the filter query admitted is returned,
\* whatever its document has become since; the candidates whose document
\* holds a number are ordered by that number in the direction asked, and in
\* an ascending sort the candidates without number (a null value, or no
\* document any more) come after them.
C30_RankReadsAgain ==
  [][\A c \in Calls : pc[c] = "sort" /\ pc'[c] = "done" =>
       (/\ Returned(c) = Candidates(c)
        /\ Sorted(c) =>
             /\ \A t, u \in RealValued(c) :
                  (IF SortedAsc(c) THEN RealValue(c, t) < RealValue(c, u)
                   ELSE RealValue(c, t) > RealValue(c, u)) => Precedes(c, t, u)
             /\ SortedAsc(c) =>
                  \A t \in RealValued(c), u \in Candidates(c) \ RealValued(c) :
                    Precedes(c, t, u))']_vars

\* a call filtering P/E <= 0 and ranking by P/E, descending, returned a
\* ticker whose P/E is now above 0, placed first for that value, and a
\* ticker whose document is gone, listed as the tickers without document
\* are (in the ranking and again in the tail)
C30_Witness ==
  \E c \in Calls :
    /\ SortedDesc(c)
    /\ "peMax" \in DOMAIN request[c].filters
    /\ RankMetric(c).field = "peTTM"
    /\ \E t \in RealValued(c), u \in WithoutRecord(c) :
         /\ RealValue(c, t) > 0
         /\ response[c][1].symbols[1] = t
         /\ Cardinality(Positions(c, u)) = 2

====
